---- MODULE Spec2Model ----
(***************************************************************************)
(* Model of the topology designer of src/src/components/ContainerLab.js:   *)
(* the graph (nodes, edges), the interface registry (nodeInterfaces), the  *)
(* YAML document (yamlOutput, editableYaml), the global settings and the   *)
(* node / edge forms, with one action per event handler.                   *)
(*                                                                         *)
(* Strings whose structure the code inspects (node names, interface names, *)
(* link endpoints, edge ids, the topology name) are sequences of           *)
(* one-character strings, so that concatenation, split(':'), includes()    *)
(* and the regular expressions are computed as the code computes them.     *)
(* Strings that are only compared (kind, image, messages) are TLA+ strings.*)
(*                                                                         *)
(* A YAML text is modelled by the object yaml.load returns for it: js-yaml *)
(* is a library, and yaml.load(yaml.dump(o)) = o for the objects           *)
(* updateYaml dumps (maps, lists and force-quoted strings).  Texts that    *)
(* yaml.load rejects, and the empty text, are separate tags.               *)
(***************************************************************************)
EXTENDS Integers, Sequences, FiniteSets, TLC

(***************************************************************************)
(* Bounds of the model.                                                    *)
(***************************************************************************)
MaxNodes == 2
MaxEdges == 2
MaxRegistry == 2
MaxNodeNum == 2

(***************************************************************************)
(* Character strings.                                                      *)
(***************************************************************************)
Digits == <<"0", "1", "2", "3", "4", "5", "6", "7", "8", "9">>

IsDigit(c) == \E i \in 1..10 : Digits[i] = c

DigitVal(c) == (CHOOSE i \in 1..10 : Digits[i] = c) - 1

RECURSIVE Dec(_)
\* `${n}` for a number n >= 0
Dec(n) == IF n < 10 THEN <<Digits[n + 1]>>
          ELSE Dec(n \div 10) \o <<Digits[(n % 10) + 1]>>

RECURSIVE ParseDigits(_)
\* parseInt(s, 10) for a string s of digits
ParseDigits(s) == IF Len(s) = 0 THEN 0
                  ELSE 10 * ParseDigits(SubSeq(s, 1, Len(s) - 1)) + DigitVal(s[Len(s)])

AllDigits(s) == \A i \in 1..Len(s) : IsDigit(s[i])

StartsWith(s, p) == Len(s) >= Len(p) /\ SubSeq(s, 1, Len(p)) = p

\* String.prototype.includes
Includes(s, sub) ==
    \E i \in 1..(Len(s) - Len(sub) + 1) : SubSeq(s, i, i + Len(sub) - 1) = sub

RECURSIVE TrimLeft(_)
TrimLeft(s) == IF Len(s) > 0 /\ s[1] = " " THEN TrimLeft(Tail(s)) ELSE s

RECURSIVE TrimRight(_)
TrimRight(s) == IF Len(s) > 0 /\ s[Len(s)] = " "
                THEN TrimRight(SubSeq(s, 1, Len(s) - 1)) ELSE s

\* String.prototype.trim
Trim(s) == TrimRight(TrimLeft(s))

\* the index of the first c in s, or 0
IndexOf(s, c) == IF \E i \in 1..Len(s) : s[i] = c
                 THEN CHOOSE i \in 1..Len(s) : s[i] = c /\ \A j \in 1..(i - 1) : s[j] # c
                 ELSE 0

RECURSIVE Split(_, _)
\* String.prototype.split(c): the list of the parts of s between the c's
Split(s, c) == LET i == IndexOf(s, c)
               IN IF i = 0 THEN <<s>>
                  ELSE <<SubSeq(s, 1, i - 1)>> \o Split(SubSeq(s, i + 1, Len(s)), c)

\* optional values: a key that is absent (undefined), or present with a value
None == <<>>
Some(v) == <<v>>
IsSome(o) == Len(o) = 1
Get(o) == o[1]

\* the JavaScript value undefined where a string is expected: no string equals it
Undefined == <<"undefined">>

\* x is falsy: undefined or the empty string
Falsy(x) == x = Undefined \/ x = <<>>

\* const [a, b] = s.split(':'): b is undefined when s has no ':'
EndpointNode(s) == Split(s, ":")[1]
EndpointInterface(s) == LET p == Split(s, ":") IN IF Len(p) >= 2 THEN p[2] ELSE Undefined

RECURSIVE SeqFilterIdx(_, _, _)
\* the elements s[i] with i in keep, in order
SeqFilterIdx(s, keep, i) ==
    IF i > Len(s) THEN <<>>
    ELSE (IF i \in keep THEN <<s[i]>> ELSE <<>>) \o SeqFilterIdx(s, keep, i + 1)

Range(s) == {s[i] : i \in 1..Len(s)}

(***************************************************************************)
(* The strings of the model.                                               *)
(***************************************************************************)
\* user?.username, received from the authentication service
username == <<"u">>

ceos == <<"c", "e", "o", "s">>
host == <<"h", "o", "s", "t">>
eth == <<"e", "t", "h">>
edge_ == <<"e", "d", "g", "e", "_">>

\* `eth${n}`
Eth(n) == eth \o Dec(n)

\* `${a}:${b}`
Colon(a, b) == a \o <<":">> \o b

(***************************************************************************)
(* validateInterface, getNextInterfaceNumber, the node-number scan.        *)
(***************************************************************************)
\* /^eth[1-9][0-9]?$|^eth[1-4][0-9]$|^eth5[0-4]$/.test(interfaceName)
validateInterface(interfaceName) ==
    LET n == Len(interfaceName)
        d(i) == IF IsDigit(interfaceName[i]) THEN DigitVal(interfaceName[i]) ELSE -1
    IN /\ interfaceName # Undefined
       /\ StartsWith(interfaceName, eth)
       /\ \/ (n = 4 /\ d(4) \in 1..9)
          \/ (n = 5 /\ d(4) \in 1..9 /\ d(5) \in 0..9)
          \/ (n = 5 /\ d(4) \in 1..4 /\ d(5) \in 0..9)
          \/ (n = 5 /\ d(4) = 5 /\ d(5) \in 0..4)

\* nodeInterfaces[nodeId] || []
UsedInterfaces(reg, nodeId) == IF nodeId \in DOMAIN reg THEN reg[nodeId] ELSE <<>>

RECURSIVE NextFree(_, _)
NextFree(used, n) == IF Eth(n) \in Range(used) THEN NextFree(used, n + 1) ELSE n

\* a numbering by the count of the node's interfaces instead of the first free number
InterfaceCountPlusOne(reg, nodeId) == Len(UsedInterfaces(reg, nodeId)) + 1

getNextInterfaceNumber(reg, nodeId) == NextFree(UsedInterfaces(reg, nodeId), 1)

\* label.match(new RegExp(`^${prefix}(\\d+)$`)): the number, or 0 when there is no match
MatchNumber(label, prefix) ==
    IF /\ Len(label) > Len(prefix)
       /\ StartsWith(label, prefix)
       /\ AllDigits(SubSeq(label, Len(prefix) + 1, Len(label)))
    THEN ParseDigits(SubSeq(label, Len(prefix) + 1, Len(label)))
    ELSE 0

RECURSIVE HighestFrom(_, _, _)
HighestFrom(ns, prefix, i) ==
    IF i > Len(ns) THEN 0
    ELSE LET m == MatchNumber(ns[i].label, prefix)
             r == HighestFrom(ns, prefix, i + 1)
         IN IF m > r THEN m ELSE r

\* highestNodeNum of handleModalSubmit, handleNodeNamePrefixChange, getNextNodeNumber
HighestNodeNum(ns, prefix) == HighestFrom(ns, prefix, 1)

(***************************************************************************)
(* generateIpsFromSubnet.                                                  *)
(***************************************************************************)
\* the value NaN, and a number
NaN == [nan |-> TRUE, value |-> 0]
Num(n) == [nan |-> FALSE, value |-> n]

RECURSIVE DigitPrefix(_)
\* the longest prefix of s made of digits
DigitPrefix(s) == IF Len(s) > 0 /\ IsDigit(s[1]) THEN <<s[1]>> \o DigitPrefix(Tail(s)) ELSE <<>>

\* parseInt(s, 10): leading blanks are skipped, a sign is read, then the digits up to
\* the first character that is not one; NaN when there is no digit
parseInt(s) ==
    LET t == TrimLeft(s)
        signed == Len(t) > 0 /\ t[1] \in {"+", "-"}
        digits == DigitPrefix(IF signed THEN Tail(t) ELSE t)
    IN IF Len(digits) = 0 THEN NaN
       ELSE IF signed /\ t[1] = "-" THEN Num(0 - ParseDigits(digits))
       ELSE Num(ParseDigits(digits))

\* newIp.join('.')
JoinDots(ip) == Dec(ip[1]) \o <<".">> \o Dec(ip[2]) \o <<".">> \o Dec(ip[3]) \o <<".">> \o Dec(ip[4])

\* the loop with hostNum = i + 1: the sequence would start at the first host
IpLoopFromFirstHost(baseIp, count) ==
    LET Ends(i) == i >= count \/ i + 1 >= 255
        end == CHOOSE i \in 0..count : Ends(i) /\ \A j \in 0..(i - 1) : ~Ends(j)
    IN [k \in 1..end |-> JoinDots([baseIp EXCEPT ![4] = (k - 1) + 1])]

\* for (let i = 0; i < count; i++) { hostNum = i + 2; if (hostNum >= 255) break; ... }:
\* the loop ends at the first i with i >= count or i + 2 >= 255, and the iterations
\* before it push one address each
IpLoop(baseIp, count) ==
    LET Ends(i) == i >= count \/ i + 2 >= 255
        end == CHOOSE i \in 0..count : Ends(i) /\ \A j \in 0..(i - 1) : ~Ends(j)
    IN [k \in 1..end |-> JoinDots([baseIp EXCEPT ![4] = (k - 1) + 2])]

generateIpsFromSubnet(subnet, count) ==
    IF Falsy(subnet) \/ Trim(subnet) = <<>> THEN <<>>
    ELSE LET parts == Split(subnet, "/")
         IN IF Len(parts) # 2 THEN <<>>
            ELSE LET mask == parseInt(parts[2])
                     ipParts == Split(parts[1], ".")
                 IN IF mask.nan \/ mask.value < 0 \/ mask.value > 32 THEN <<>>
                    ELSE IF Len(ipParts) # 4 THEN <<>>
                    ELSE LET parsed == [k \in 1..4 |-> parseInt(ipParts[k])]
                             baseIp == [k \in 1..4 |-> parsed[k].value]
                         IN IF \E k \in 1..4 : \/ parsed[k].nan
                                               \/ parsed[k].value < 0
                                               \/ parsed[k].value > 255
                            THEN <<>>
                            ELSE IpLoop(baseIp, count)

(***************************************************************************)
(* Nodes, edges, kinds.                                                    *)
(***************************************************************************)
\* a bind of the node form, { source, target }
BindPair(src, tgt) == [form |-> "pair", source |-> src, target |-> tgt, text |-> <<>>]
\* a bind that is a plain string (the form's reset value "", or a YAML list item)
BindStr(t) == [form |-> "string", source |-> Undefined, target |-> Undefined, text |-> t]

Field(k, v) == [key |-> k, value |-> v]

\* useState([{ key: '', value: '' }])
EmptyCustomFields == <<Field(<<>>, <<>>)>>

\* the placeholder node of onDrop / onNodeClick: { id: getId(), position, data: { label } }
NoNode == [id |-> <<>>, label |-> <<>>, kind |-> "", image |-> "", binds |-> <<>>,
           mgmtIp |-> <<>>, ipv6MgmtIp |-> <<>>, startupConfig |-> <<>>,
           customFields |-> <<>>, position |-> <<0, 0>>]

Edge(i, s, t, si, ti) ==
    [id |-> i, source |-> s, target |-> t, sourceInterface |-> si, targetInterface |-> ti]

NoEdge == Edge(<<>>, <<>>, <<>>, <<>>, <<>>)

\* the kind template of the initial state and of handleReset
EmptyKind == [name |-> <<>>,
              showStartupConfig |-> FALSE, startupConfig |-> <<>>,
              showImage |-> FALSE, image |-> <<>>,
              showExec |-> FALSE, exec |-> << <<>> >>,
              showBinds |-> FALSE, binds |-> << <<>> >>]

(***************************************************************************)
(* Documents: what yaml.load returns for a text.                           *)
(***************************************************************************)
\* the text '' (yaml.load returns undefined)
EmptyDoc == [tag |-> "empty", name |-> None, nodes |-> None, links |-> None,
             mgmt |-> None, defaults |-> None, kinds |-> None]

\* a text yaml.load throws on
InvalidDoc == [tag |-> "invalid", name |-> None, nodes |-> None, links |-> None,
               mgmt |-> None, defaults |-> None, kinds |-> None]

MapDoc(n, ns, ls, m, d, k) ==
    [tag |-> "map", name |-> n, nodes |-> ns, links |-> ls,
     mgmt |-> m, defaults |-> d, kinds |-> k]

\* a node entry with no key set
EmptyEntry(k) == [key |-> k, kind |-> None, image |-> None, binds |-> None,
                  mgmt4 |-> None, mgmt6 |-> None, startup |-> None, env |-> None,
                  extra |-> <<>>]

MgmtBlock(net, v4, v4dash, v6, v6dash) ==
    [network |-> net, ipv4_subnet |-> v4, ipv4dash |-> v4dash,
     ipv6_subnet |-> v6, ipv6dash |-> v6dash]

\* obj[key] of a list of keyed entries: the entry, or the empty object
Lookup(entries, k) ==
    IF \E i \in 1..Len(entries) : entries[i].key = k
    THEN entries[CHOOSE i \in 1..Len(entries) : entries[i].key = k]
    ELSE EmptyEntry(k)

\* obj[e.key] = e: a JavaScript object keeps a key's first position
Put(entries, e) ==
    IF \E i \in 1..Len(entries) : entries[i].key = e.key
    THEN [i \in 1..Len(entries) |-> IF entries[i].key = e.key THEN e ELSE entries[i]]
    ELSE Append(entries, e)

\* x || y on optional values
OrElse(x, y) == IF IsSome(x) THEN x ELSE y

\* a string as an optional value: '' and undefined count as absent
Truthy(x) == IF Falsy(x) THEN None ELSE Some(x)

(***************************************************************************)
(* updateYaml: the document rendered from the graph and the settings.      *)
(* cl is the closure of the handler that calls it: the settings and the    *)
(* yamlOutput of the render the handler was created in.                    *)
(***************************************************************************)
Settings(name, sm, net, v4, s6, v6, sk, ks, sd, dk) ==
    [topologyName |-> name, showMgmt |-> sm, mgmtNetwork |-> net, ipv4Subnet |-> v4,
     showIpv6 |-> s6, ipv6Subnet |-> v6, showKind |-> sk, kinds |-> ks,
     showDefault |-> sd, defaultKind |-> dk]

\* topologyName.includes(user?.username) ? topologyName : `${user?.username || ''}-${topologyName}`
QualifiedName(topologyName) ==
    IF Includes(topologyName, username) THEN topologyName
    ELSE username \o <<"-">> \o topologyName

IsValidBind(b) == b.form = "pair" /\ ~Falsy(b.source) /\ ~Falsy(b.target)

\* node.data.binds.filter(bind => bind.source && bind.target).map(bind => `${bind.source}:${bind.target}`)
ValidBinds(binds) ==
    LET v == SelectSeq(binds, IsValidBind)
    IN [i \in 1..Len(v) |-> Colon(v[i].source, v[i].target)]

RECURSIVE EnvFrom(_, _)
\* the env object built from the custom fields with a key and a value
EnvFrom(fields, i) ==
    IF i = 0 THEN <<>>
    ELSE LET rest == EnvFrom(fields, i - 1)
         IN IF ~Falsy(fields[i].key) /\ ~Falsy(fields[i].value)
            THEN Put(rest, fields[i]) ELSE rest

\* a node entry whose mgmt-ipv6 falls back on the mgmt-ipv4 of the previous document
NodeEntryFromWrongKey(node, existingNode) ==
    LET validBinds == ValidBinds(node.binds)
        env == EnvFrom(node.customFields, Len(node.customFields))
    IN [key |-> IF Falsy(node.id) THEN node.label ELSE node.id,
        kind |-> IF node.kind # "" THEN Some(node.kind) ELSE existingNode.kind,
        image |-> IF node.image # "" THEN Some(node.image) ELSE existingNode.image,
        binds |-> IF Len(validBinds) > 0 THEN Some(validBinds) ELSE existingNode.binds,
        mgmt4 |-> OrElse(Truthy(node.mgmtIp), existingNode.mgmt4),
        mgmt6 |-> OrElse(Truthy(node.ipv6MgmtIp), existingNode.mgmt4),
        startup |-> IF ~Falsy(node.startupConfig) /\ Trim(node.startupConfig) # <<>>
                    THEN Some(node.startupConfig) ELSE existingNode.startup,
        env |-> IF Len(env) > 0 THEN Some(env) ELSE existingNode.env,
        extra |-> existingNode.extra]

\* yamlObject.topology.nodes[nodeKey] of updateYaml
NodeEntry(node, existingNode) ==
    LET validBinds == ValidBinds(node.binds)
        env == EnvFrom(node.customFields, Len(node.customFields))
    IN [key |-> IF Falsy(node.id) THEN node.label ELSE node.id,
        kind |-> IF node.kind # "" THEN Some(node.kind) ELSE existingNode.kind,
        image |-> IF node.image # "" THEN Some(node.image) ELSE existingNode.image,
        binds |-> IF Len(validBinds) > 0 THEN Some(validBinds) ELSE existingNode.binds,
        mgmt4 |-> OrElse(Truthy(node.mgmtIp), existingNode.mgmt4),
        mgmt6 |-> OrElse(Truthy(node.ipv6MgmtIp), existingNode.mgmt6),
        startup |-> IF ~Falsy(node.startupConfig) /\ Trim(node.startupConfig) # <<>>
                    THEN Some(node.startupConfig) ELSE existingNode.startup,
        env |-> IF Len(env) > 0 THEN Some(env) ELSE existingNode.env,
        extra |-> existingNode.extra]

RECURSIVE NodeEntries(_, _, _)
\* updatedNodes.forEach(...) over the first i nodes
NodeEntries(ns, existing, i) ==
    IF i = 0 THEN <<>>
    ELSE LET key == IF Falsy(ns[i].id) THEN ns[i].label ELSE ns[i].id
         IN Put(NodeEntries(ns, existing, i - 1), NodeEntry(ns[i], Lookup(existing, key)))

\* `${edge.source}:${edge.data?.sourceInterface || 'eth1'}`
Endpoint(nodeId, interface) == Colon(nodeId, IF Falsy(interface) THEN Eth(1) ELSE interface)

LinkEntries(es) ==
    [i \in 1..Len(es) |-> <<Endpoint(es[i].source, es[i].sourceInterface),
                            Endpoint(es[i].target, es[i].targetInterface)>>]

NonBlank(x) == Trim(x) # <<>>

KindEntry(kind) ==
    [key |-> kind.name,
     startup |-> IF kind.showStartupConfig /\ NonBlank(kind.startupConfig)
                 THEN Some(kind.startupConfig) ELSE None,
     image |-> IF kind.showImage /\ NonBlank(kind.image) THEN Some(kind.image) ELSE None,
     exec |-> IF kind.showExec /\ Len(kind.exec) > 0 /\ NonBlank(kind.exec[1])
              THEN Some(SelectSeq(kind.exec, NonBlank)) ELSE None,
     binds |-> IF kind.showBinds /\ Len(kind.binds) > 0 /\ NonBlank(kind.binds[1])
               THEN Some(SelectSeq(kind.binds, NonBlank)) ELSE None]

RECURSIVE KindEntries(_, _)
KindEntries(ks, i) ==
    IF i = 0 THEN <<>>
    ELSE IF NonBlank(ks[i].name) THEN Put(KindEntries(ks, i - 1), KindEntry(ks[i]))
         ELSE KindEntries(ks, i - 1)

\* the text updateYaml stores in yamlOutput and editableYaml
updateYaml(updatedNodes, updatedEdges, cl, yamlOutputOfClosure) ==
    IF /\ Len(updatedNodes) = 0
       /\ ~cl.showMgmt /\ ~cl.showKind /\ ~cl.showDefault
       /\ cl.topologyName = <<>>
    THEN EmptyDoc
    ELSE LET existing == IF yamlOutputOfClosure.tag = "map" /\ IsSome(yamlOutputOfClosure.nodes)
                         THEN Get(yamlOutputOfClosure.nodes) ELSE <<>>
             ks == KindEntries(cl.kinds, Len(cl.kinds))
         IN MapDoc(Some(QualifiedName(cl.topologyName)),
                   Some(NodeEntries(updatedNodes, existing, Len(updatedNodes))),
                   IF Len(updatedEdges) > 0 THEN Some(LinkEntries(updatedEdges)) ELSE None,
                   IF cl.showMgmt
                   THEN Some(MgmtBlock(Some(cl.mgmtNetwork), Some(cl.ipv4Subnet), None,
                                       IF cl.showIpv6 /\ cl.ipv6Subnet # <<>>
                                       THEN Some(cl.ipv6Subnet) ELSE None,
                                       None))
                   ELSE None,
                   IF cl.showDefault /\ cl.defaultKind # "" THEN Some(cl.defaultKind) ELSE None,
                   IF cl.showKind /\ Len(cl.kinds) > 0 /\ Len(ks) > 0 THEN Some(ks) ELSE None)

(***************************************************************************)
(* The interface registry: the object nodeInterfaces, node id -> list.     *)
(***************************************************************************)
EmptyReg == [k \in {} |-> <<>>]

\* { ...reg, [k]: v }
RegSet(reg, k, v) == [x \in (DOMAIN reg) \cup {k} |-> IF x = k THEN v ELSE reg[x]]

\* delete reg[k]
RegDelete(reg, k) == [x \in (DOMAIN reg) \ {k} |-> reg[x]]

\* list.filter(i => i !== name)
Without(list, name) == SelectSeq(list, LAMBDA i : i # name)

(***************************************************************************)
(* The state: the useState hooks of the App component.                     *)
(***************************************************************************)
VARIABLES
    nodes, edges, nodeInterfaces,
    yamlOutput, editableYaml, isYamlValid, yamlParseError,
    topologyName, showMgmt, mgmtNetwork, ipv4Subnet, showIpv6, ipv6Subnet,
    showKind, kinds, showDefault, defaultKind,
    isModalOpen, modalType, newNode, nodeName, nodeNamePrefix, nodeKind, nodeImage,
    nodeCount, nodeBinds, nodeMgmtIp, nodeIpv6MgmtIp, nodeStartupConfig,
    nodeCustomFields, nodeModalWarning, isModifying,
    isEdgeModalOpen, newEdgeData, sourceInterface, targetInterface,
    isModifyingEdge, edgeModalWarning,
    showErrorModal, errorMessage, mgmtWarning, contextMenu,
    timers, call, returned,
    isDeployModalOpen, showLogModal, autoAssignMacSn, deployLoading, deployment

graphVars == <<nodes, edges, nodeInterfaces>>
docVars == <<yamlOutput, editableYaml, isYamlValid, yamlParseError>>
settingVars == <<topologyName, showMgmt, mgmtNetwork, ipv4Subnet, showIpv6, ipv6Subnet,
                 showKind, kinds, showDefault, defaultKind>>
nodeFormVars == <<isModalOpen, modalType, newNode, nodeName, nodeNamePrefix, nodeKind,
                  nodeImage, nodeCount, nodeBinds, nodeMgmtIp, nodeIpv6MgmtIp,
                  nodeStartupConfig, nodeCustomFields, nodeModalWarning, isModifying>>
edgeFormVars == <<isEdgeModalOpen, newEdgeData, sourceInterface, targetInterface,
                  isModifyingEdge, edgeModalWarning>>
uiVars == <<showErrorModal, errorMessage, mgmtWarning, contextMenu>>
\* a call of a function of the module, and what it returned
callVars == <<call, returned>>
\* the deploy dialog, the log dialog, and the deployment awaiting the server
deployVars == <<isDeployModalOpen, showLogModal, autoAssignMacSn, deployLoading, deployment>>
vars == <<graphVars, docVars, settingVars, nodeFormVars, edgeFormVars, uiVars,
          timers, callVars, deployVars>>

\* setContextMenu(null)
NoMenu == [type |-> "none", node |-> NoNode, edge |-> NoEdge]

\* no function is being called
NoCall == [fn |-> "", interfaceName |-> <<>>, subnet |-> <<>>, count |-> 0]
NotReturned == [done |-> FALSE, valid |-> FALSE, ips |-> <<>>]

\* no call of handleServerDeploy is waiting for the server
NoDeployment == [pc |-> "idle", parsedYaml |-> EmptyDoc]

\* the settings as the closure of a handler sees them
SettingsNow == Settings(topologyName, showMgmt, mgmtNetwork, ipv4Subnet, showIpv6,
                        ipv6Subnet, showKind, kinds, showDefault, defaultKind)

\* the state of TopologyProvider and of the useState initialisers
Mounted ==
    /\ nodes = <<>> /\ edges = <<>> /\ nodeInterfaces = EmptyReg
    /\ yamlOutput = EmptyDoc /\ editableYaml = EmptyDoc
    /\ isYamlValid = TRUE /\ yamlParseError = ""
    /\ topologyName = <<>>
    /\ showMgmt = FALSE /\ mgmtNetwork = <<>> /\ ipv4Subnet = <<>>
    /\ showIpv6 = FALSE /\ ipv6Subnet = <<>>
    /\ showKind = FALSE /\ kinds = <<EmptyKind>>
    /\ showDefault = FALSE /\ defaultKind = ""
    /\ isModalOpen = FALSE /\ modalType = "create" /\ newNode = NoNode
    /\ nodeName = <<>> /\ nodeNamePrefix = <<>>
    /\ nodeKind = "ceos" /\ nodeImage = "ceos:4.34.0F"
    /\ nodeCount = 1
    /\ nodeBinds = <<BindPair(<<>>, <<>>)>>
    /\ nodeMgmtIp = <<>> /\ nodeIpv6MgmtIp = <<>> /\ nodeStartupConfig = <<>>
    /\ nodeCustomFields = EmptyCustomFields
    /\ nodeModalWarning = FALSE /\ isModifying = FALSE
    /\ isEdgeModalOpen = FALSE /\ newEdgeData = NoEdge
    /\ sourceInterface = <<>> /\ targetInterface = <<>>
    /\ isModifyingEdge = FALSE /\ edgeModalWarning = FALSE
    /\ showErrorModal = FALSE /\ errorMessage = ""
    /\ mgmtWarning = FALSE /\ contextMenu = NoMenu
    /\ timers = <<>>
    /\ isDeployModalOpen = FALSE /\ showLogModal = FALSE
    /\ autoAssignMacSn = FALSE /\ deployLoading = FALSE
    /\ deployment = NoDeployment

Init == Mounted /\ call = NoCall /\ returned = NotReturned

(***************************************************************************)
(* The useEffect hooks that re-render the document when a setting changed  *)
(* in the commit of a handler.  They run in the closure of the new render: *)
(* the new graph and settings, and the yamlOutput y the handler left.      *)
(***************************************************************************)
\* kindsSet: the handler called setKinds (a new array, whatever its content)
EffectsFire(kindsSet) ==
    \/ /\ <<mgmtNetwork', ipv4Subnet', ipv6Subnet'>> # <<mgmtNetwork, ipv4Subnet, ipv6Subnet>>
       /\ showMgmt'
    \/ /\ defaultKind' # defaultKind
       /\ showDefault' /\ defaultKind' # ""
    \/ /\ (showKind' # showKind \/ kindsSet)
       /\ showKind'
    \/ /\ <<showMgmt', showKind', showDefault'>> # <<showMgmt, showKind, showDefault>>
       /\ (Len(nodes') > 0 \/ topologyName' # <<>> \/ showMgmt' \/ showKind' \/ showDefault')

\* the document after the handler stored y and e, and the effects ran
CommitYaml(y, e, kindsSet) ==
    IF EffectsFire(kindsSet)
    THEN /\ yamlOutput' = updateYaml(nodes', edges', SettingsNow', y)
         /\ editableYaml' = yamlOutput'
    ELSE /\ yamlOutput' = y
         /\ editableYaml' = e

\* a handler that calls updateYaml(ns, es) and changes no setting
RenderYaml(ns, es) ==
    /\ yamlOutput' = updateYaml(ns, es, SettingsNow, yamlOutput)
    /\ editableYaml' = yamlOutput'

\* no modal dialog covers the page
NoModal == /\ ~isModalOpen /\ ~isEdgeModalOpen /\ ~showErrorModal
           /\ ~isDeployModalOpen /\ ~showLogModal

\* the canvas and the sidebar take an event: no dialog, no context menu open
CanvasFree == NoModal /\ contextMenu.type = "none"

(***************************************************************************)
(* Inputs of the model: what the user drops, types and picks.              *)
(***************************************************************************)
\* event.dataTransfer.getData("application/reactflow")
DropTypes == {"router", "server"}
\* the sidebar buttons
ClickTypes == {"router", "bridge"}
\* x: event.clientX - reactFlowBounds.left, y: event.clientY - reactFlowBounds.top
DropPosition == <<250, 150>>
\* the position onNodeClick gives
ClickPosition == <<400, 200>>
\* getId(): `node_${id++}`; no node of the model is named node_<n>
NewId == <<"n", "o", "d", "e", "_">>

bridge == <<"b", "r", "i", "d", "g", "e">>
TypedPrefixes == {<<>>, ceos, bridge}
TypedNames == {<<>>, ceos \o <<"2">>, bridge}
TypedCounts == {1, 2}
PickedKinds == {"", "linux"}
\* what the user types into a key or a value of "Environment Variables"
TypedFieldTexts == {<<"l", "a", "b", "e", "l">>, <<"x">>}
\* an address typed into "Management IP (IPv6)"
TypedIpv6 == {<<>>, <<"2", "0", "0", "1", ":", ":">>}

\* the placeholder node of onDrop and onNodeClick
Placeholder(pos) == [NoNode EXCEPT !.id = NewId, !.label = <<"n", "e", "w">>, !.position = pos]

\* generateRandomName(): `${user?.username || ''}-${character}-${place}`.toLowerCase()
RandomNames == {username \o <<"-", "t", "o", "m", "-", "c", "o", "r", "k">>}

(***************************************************************************)
(* The node form.                                                          *)
(***************************************************************************)
\* validateMgmtSettings() returns false
MgmtInvalid == showMgmt /\ (Trim(mgmtNetwork) = <<>> \/ Trim(ipv4Subnet) = <<>>)

\* yamlOutput.replace(/name:.*/, `name: ${newName}`)
ReplaceName(doc, newName) ==
    IF doc.tag = "map" /\ IsSome(doc.name) THEN [doc EXCEPT !.name = Some(newName)] ELSE doc

\* the node form as onDrop and onNodeClick open it
OpenCreateForm(placeholder, prefix, kind, image) ==
    /\ newNode' = placeholder
    /\ isModalOpen' = TRUE
    /\ modalType' = "create"
    /\ nodeNamePrefix' = prefix
    /\ nodeKind' = kind
    /\ nodeImage' = image
    /\ nodeCount' = 1
    /\ nodeBinds' = <<BindStr(<<>>)>>
    /\ nodeMgmtIp' = <<>>
    /\ nodeModalWarning' = FALSE
    /\ nodeCustomFields' = EmptyCustomFields
    /\ UNCHANGED <<nodeName, nodeIpv6MgmtIp, nodeStartupConfig, isModifying>>

\* if (!topologyName.trim()) { setTopologyName(generateRandomName()); setYamlOutput(...) }
NameIfBlank ==
    IF Trim(topologyName) = <<>>
    THEN \E newName \in RandomNames :
            /\ topologyName' = newName
            /\ yamlOutput' = ReplaceName(yamlOutput, newName)
    ELSE UNCHANGED <<topologyName, yamlOutput>>

onDrop(type) ==
    /\ CanvasFree
    /\ IF MgmtInvalid
       THEN /\ mgmtWarning' = TRUE
            /\ UNCHANGED <<topologyName, yamlOutput, nodeFormVars>>
       ELSE /\ mgmtWarning' = (IF showMgmt THEN FALSE ELSE mgmtWarning)
            /\ NameIfBlank
            /\ IF type = "router"
               THEN OpenCreateForm(Placeholder(DropPosition), ceos, "ceos", "ceos:4.34.1F")
               ELSE OpenCreateForm(Placeholder(DropPosition), host, "linux", "alpine")
    /\ UNCHANGED <<graphVars, editableYaml, isYamlValid, yamlParseError>>
    /\ UNCHANGED <<showMgmt, mgmtNetwork, ipv4Subnet, showIpv6, ipv6Subnet,
                   showKind, kinds, showDefault, defaultKind>>
    /\ UNCHANGED <<edgeFormVars, showErrorModal, errorMessage, contextMenu>>
    /\ UNCHANGED <<timers, callVars, deployVars>>

onNodeClick(nodeType) ==
    /\ CanvasFree
    /\ IF MgmtInvalid
       THEN /\ mgmtWarning' = TRUE
            /\ UNCHANGED <<topologyName, yamlOutput, nodeFormVars>>
       ELSE /\ mgmtWarning' = (IF showMgmt THEN FALSE ELSE mgmtWarning)
            /\ NameIfBlank
            /\ IF nodeType = "router"
               THEN OpenCreateForm(Placeholder(ClickPosition), ceos, "ceos", "ceos:4.34.1F")
               ELSE OpenCreateForm(Placeholder(ClickPosition), bridge, "linux", "alpine")
    /\ UNCHANGED <<graphVars, editableYaml, isYamlValid, yamlParseError>>
    /\ UNCHANGED <<showMgmt, mgmtNetwork, ipv4Subnet, showIpv6, ipv6Subnet,
                   showKind, kinds, showDefault, defaultKind>>
    /\ UNCHANGED <<edgeFormVars, showErrorModal, errorMessage, contextMenu>>
    /\ UNCHANGED <<timers, callVars, deployVars>>

\* the fields of the open node form the user edits
NodeFormOpen == isModalOpen /\ ~showErrorModal

handleNodeNamePrefixChange(prefix) ==
    /\ NodeFormOpen /\ modalType = "create"
    /\ nodeNamePrefix' = prefix
    /\ LET highestNodeNum == HighestNodeNum(nodes, prefix)
       IN nodeName' = prefix \o (IF nodeCount > 1 THEN Dec(highestNodeNum + 1)
                                 ELSE IF highestNodeNum # 0 THEN Dec(highestNodeNum + 1)
                                 ELSE <<>>)
    /\ UNCHANGED <<isModalOpen, modalType, newNode, nodeKind, nodeImage, nodeCount, nodeBinds,
                   nodeMgmtIp, nodeIpv6MgmtIp, nodeStartupConfig, nodeCustomFields,
                   nodeModalWarning, isModifying>>
    /\ UNCHANGED <<graphVars, docVars, settingVars, edgeFormVars, uiVars>>
    /\ UNCHANGED <<timers, callVars, deployVars>>

handleNodeCountChange(count) ==
    /\ NodeFormOpen /\ modalType = "create"
    /\ LET newCount == IF count < 1 THEN 1 ELSE IF count > 100 THEN 100 ELSE count
       IN /\ nodeCount' = newCount
          /\ nodeName' = IF nodeNamePrefix # <<>>
                         THEN nodeNamePrefix \o (IF newCount > 1 THEN <<"1">> ELSE <<>>)
                         ELSE nodeName
    /\ UNCHANGED <<isModalOpen, modalType, newNode, nodeNamePrefix, nodeKind, nodeImage,
                   nodeBinds, nodeMgmtIp, nodeIpv6MgmtIp, nodeStartupConfig,
                   nodeCustomFields, nodeModalWarning, isModifying>>
    /\ UNCHANGED <<graphVars, docVars, settingVars, edgeFormVars, uiVars>>
    /\ UNCHANGED <<timers, callVars, deployVars>>

handleNodeNameChange(name) ==
    /\ NodeFormOpen /\ modalType = "modify"
    /\ nodeName' = name
    /\ UNCHANGED <<isModalOpen, modalType, newNode, nodeNamePrefix, nodeKind, nodeImage,
                   nodeCount, nodeBinds, nodeMgmtIp, nodeIpv6MgmtIp, nodeStartupConfig,
                   nodeCustomFields, nodeModalWarning, isModifying>>
    /\ UNCHANGED <<graphVars, docVars, settingVars, edgeFormVars, uiVars>>
    /\ UNCHANGED <<timers, callVars, deployVars>>

\* onChange={(e) => setNodeIpv6MgmtIp(e.target.value)}
setNodeIpv6MgmtIp(value) ==
    /\ NodeFormOpen
    /\ nodeIpv6MgmtIp' = value
    /\ UNCHANGED <<isModalOpen, modalType, newNode, nodeName, nodeNamePrefix, nodeKind,
                   nodeImage, nodeCount, nodeBinds, nodeMgmtIp, nodeStartupConfig,
                   nodeCustomFields, nodeModalWarning, isModifying>>
    /\ UNCHANGED <<graphVars, docVars, settingVars, edgeFormVars, uiVars>>
    /\ UNCHANGED <<timers, callVars, deployVars>>

\* handleCustomFieldChange(index, field, value) in the create form, whose fields onDrop and
\* onNodeClick have just replaced by a new list
handleCustomFieldChange(index, field, value) ==
    /\ NodeFormOpen /\ modalType = "create"
    /\ index \in 1..Len(nodeCustomFields)
    /\ nodeCustomFields' = [nodeCustomFields EXCEPT ![index] =
                               IF field = "key" THEN Field(value, @.value)
                               ELSE Field(@.key, value)]
    /\ UNCHANGED <<isModalOpen, modalType, newNode, nodeName, nodeNamePrefix, nodeKind,
                   nodeImage, nodeCount, nodeBinds, nodeMgmtIp, nodeIpv6MgmtIp,
                   nodeStartupConfig, nodeModalWarning, isModifying>>
    /\ UNCHANGED <<graphVars, docVars, settingVars, edgeFormVars, uiVars>>
    /\ UNCHANGED <<timers, callVars, deployVars>>

handleNodeKindChange(selectedKind) ==
    /\ NodeFormOpen
    /\ nodeKind' = selectedKind
    /\ nodeImage' = (IF selectedKind = "ceos" THEN "ceos:4.34.1F"
                     ELSE IF selectedKind = "sonic-vm" THEN "sonic-vm:202411"
                     ELSE IF selectedKind = "linux" THEN "alpine"
                     ELSE "")
    /\ UNCHANGED <<isModalOpen, modalType, newNode, nodeName, nodeNamePrefix, nodeCount,
                   nodeBinds, nodeMgmtIp, nodeIpv6MgmtIp, nodeStartupConfig,
                   nodeCustomFields, nodeModalWarning, isModifying>>
    /\ UNCHANGED <<graphVars, docVars, settingVars, edgeFormVars, uiVars>>
    /\ UNCHANGED <<timers, callVars, deployVars>>

handleModalCancel ==
    /\ NodeFormOpen
    /\ isModalOpen' = FALSE
    /\ nodeName' = <<>>
    /\ nodeNamePrefix' = <<>>
    /\ nodeBinds' = <<BindStr(<<>>)>>
    /\ nodeMgmtIp' = <<>>
    /\ nodeIpv6MgmtIp' = <<>>
    /\ nodeCount' = 1
    /\ nodeStartupConfig' = <<>>
    /\ UNCHANGED <<modalType, newNode, nodeKind, nodeImage, nodeCustomFields,
                   nodeModalWarning, isModifying>>
    /\ UNCHANGED <<graphVars, docVars, settingVars, edgeFormVars, uiVars>>
    /\ UNCHANGED <<timers, callVars, deployVars>>

\* the window's keydown listener, on the Escape key
handleEsc ==
    /\ isModalOpen' = FALSE
    /\ nodeName' = <<>>
    /\ nodeBinds' = <<BindStr(<<>>)>>
    /\ nodeMgmtIp' = <<>>
    /\ UNCHANGED <<modalType, newNode, nodeNamePrefix, nodeKind, nodeImage, nodeCount,
                   nodeIpv6MgmtIp, nodeStartupConfig, nodeCustomFields, nodeModalWarning,
                   isModifying>>
    /\ UNCHANGED <<graphVars, docVars, settingVars, edgeFormVars, uiVars>>
    /\ UNCHANGED <<timers, callVars, deployVars>>

\* data: { label, kind, ..., customFields,
\*         ...Object.fromEntries(nodeCustomFields.filter(f => f.key && f.value).map(f => [f.key, f.value])) }:
\* the spread comes last, so a custom field named after a data field, with a value,
\* replaces that field, and of two such fields the later one wins (kind and image are
\* plain strings here, and no typed key names them)
DataField(key, value) ==
    LET named == {i \in 1..Len(nodeCustomFields) :
                     /\ nodeCustomFields[i].key = key
                     /\ ~Falsy(nodeCustomFields[i].key)
                     /\ ~Falsy(nodeCustomFields[i].value)}
    IN IF named = {} THEN value
       ELSE nodeCustomFields[CHOOSE i \in named : \A j \in named : j <= i].value

\* the node the form builds: { ...newNode, id, position, data: { label, kind, image, ... } }
FormNode(nodeId, label, mgmtIp, ipv6MgmtIp, position) ==
    [id |-> nodeId, label |-> DataField(<<"l", "a", "b", "e", "l">>, label),
     kind |-> nodeKind, image |-> nodeImage, binds |-> nodeBinds,
     mgmtIp |-> DataField(<<"m", "g", "m", "t", "I", "p">>, mgmtIp),
     ipv6MgmtIp |-> DataField(<<"i", "p", "v", "6", "M", "g", "m", "t", "I", "p">>, ipv6MgmtIp),
     startupConfig |-> DataField(<<"s", "t", "a", "r", "t", "u", "p", "C", "o", "n", "f", "i", "g">>,
                                 nodeStartupConfig),
     customFields |-> nodeCustomFields,
     position |-> position]

\* edges.map(...) of a rename: the source is rewritten, else the target
RenameEdge(edge, oldNodeId, updatedNodeId) ==
    IF edge.source = oldNodeId THEN [edge EXCEPT !.source = updatedNodeId]
    ELSE IF edge.target = oldNodeId THEN [edge EXCEPT !.target = updatedNodeId]
    ELSE edge

\* a rename that copies the registry entry and leaves the old key in place
CopyRegistryEntry(reg, oldNodeId, updatedNodeId) ==
    IF oldNodeId \in DOMAIN reg
    THEN RegSet(reg, updatedNodeId, reg[oldNodeId])
    ELSE reg

\* the registry entry of oldNodeId moved to updatedNodeId
RenameRegistry(reg, oldNodeId, updatedNodeId) ==
    IF oldNodeId \in DOMAIN reg
    THEN RegDelete(RegSet(reg, updatedNodeId, reg[oldNodeId]), oldNodeId)
    ELSE reg

\* the form's reset at the end of a create submit
ResetNodeForm ==
    /\ isModalOpen' = FALSE
    /\ nodeName' = <<>>
    /\ nodeNamePrefix' = <<>>
    /\ nodeKind' = "ceos"
    /\ nodeImage' = "ceos:4.34.0F"
    /\ nodeBinds' = <<BindStr(<<>>)>>
    /\ nodeMgmtIp' = <<>>
    /\ nodeIpv6MgmtIp' = <<>>
    /\ nodeModalWarning' = FALSE
    /\ nodeCount' = 1
    /\ nodeStartupConfig' = <<>>

\* modalType === "modify"
SubmitModify ==
    IF Trim(nodeName) = <<>> \/ nodeKind = ""
    THEN /\ nodeModalWarning' = TRUE
         /\ UNCHANGED <<isModalOpen, isModifying>>
         /\ UNCHANGED <<graphVars, yamlOutput, editableYaml>>
    ELSE LET oldNodeId == newNode.id
             wasNameChanged == nodeName # newNode.label
             updatedNodeId == IF wasNameChanged THEN nodeName ELSE oldNodeId
             updatedNode == FormNode(updatedNodeId, nodeName, nodeMgmtIp,
                                     nodeIpv6MgmtIp, newNode.position)
             updatedNodes == [i \in 1..Len(nodes) |->
                                 IF nodes[i].id = oldNodeId THEN updatedNode ELSE nodes[i]]
             updatedEdges == IF wasNameChanged
                             THEN [i \in 1..Len(edges) |->
                                      RenameEdge(edges[i], oldNodeId, updatedNodeId)]
                             ELSE edges
         IN /\ RenderYaml(updatedNodes, updatedEdges)
            /\ nodes' = updatedNodes
            /\ edges' = updatedEdges
            /\ nodeInterfaces' = IF wasNameChanged
                                 THEN RenameRegistry(nodeInterfaces, oldNodeId, updatedNodeId)
                                 ELSE nodeInterfaces
            /\ isModifying' = FALSE
            /\ nodeModalWarning' = FALSE
            /\ isModalOpen' = FALSE

\* `${nodeMgmtIp.endsWith('.') ? nodeMgmtIp : `${nodeMgmtIp}.`}${nodeNum}`
MgmtIpWithSuffix(ip, nodeNum) ==
    IF ip # <<>> /\ Trim(ip) # <<>>
    THEN (IF ip[Len(ip)] = "." THEN ip ELSE ip \o <<".">>) \o Dec(nodeNum)
    ELSE <<>>

\* the index of the first "::" in s, or 0
IndexOfColons(s) ==
    IF \E i \in 1..(Len(s) - 1) : s[i] = ":" /\ s[i + 1] = ":"
    THEN CHOOSE i \in 1..(Len(s) - 1) :
            /\ s[i] = ":" /\ s[i + 1] = ":"
            /\ \A j \in 1..(i - 1) : ~(s[j] = ":" /\ s[j + 1] = ":")
    ELSE 0

Ipv6WithSuffix(ip, nodeNum) ==
    LET i == IndexOfColons(ip)
    IN IF ip # <<>> /\ Trim(ip) # <<>>
       THEN IF i # 0 /\ i = Len(ip) - 1 THEN ip \o Dec(nodeNum)
            ELSE IF i # 0
                 THEN SubSeq(ip, 1, i - 1) \o <<":", ":">> \o Dec(nodeNum) \o <<":">>
                      \o SubSeq(ip, i + 2, Len(ip))
                 ELSE ip \o Dec(nodeNum)
       ELSE <<>>

\* the i-th (from 0) node of a bulk creation
BulkNode(i, startingNum) ==
    LET nodeNum == startingNum + i
        row == i \div 4
        col == i % 4
        finalNodeName == nodeNamePrefix \o Dec(nodeNum)
    IN FormNode(finalNodeName, finalNodeName,
                MgmtIpWithSuffix(nodeMgmtIp, nodeNum),
                Ipv6WithSuffix(nodeIpv6MgmtIp, nodeNum),
                <<newNode.position[1] + col * 180, newNode.position[2] + row * 150>>)

RECURSIVE InitializeAll(_, _, _)
\* initializeNodeInterfaces(id) for the first i nodes of ns
InitializeAll(reg, ns, i) ==
    IF i = 0 THEN reg ELSE RegSet(InitializeAll(reg, ns, i - 1), ns[i].id, <<>>)

\* modalType === "create"
SubmitCreate ==
    IF Trim(nodeNamePrefix) = <<>> \/ nodeKind = ""
    THEN /\ nodeModalWarning' = TRUE
         /\ UNCHANGED <<isModalOpen, nodeName, nodeNamePrefix, nodeKind, nodeImage, nodeBinds,
                        nodeMgmtIp, nodeIpv6MgmtIp, nodeCount, nodeStartupConfig, isModifying>>
         /\ UNCHANGED <<graphVars, yamlOutput, editableYaml>>
    ELSE LET highestNodeNum == HighestNodeNum(nodes, nodeNamePrefix)
             finalNodeName == IF Trim(nodeName) # <<>> THEN Trim(nodeName)
                              ELSE nodeNamePrefix \o Dec(highestNodeNum + 1)
             newNodeWithData == FormNode(finalNodeName, finalNodeName, nodeMgmtIp,
                                         nodeIpv6MgmtIp, newNode.position)
             newNodesWithData == [i \in 1..nodeCount |-> BulkNode(i - 1, highestNodeNum + 1)]
             newNodesAdded == IF nodeCount = 1
                              THEN (IF isModifying THEN <<>> ELSE <<newNodeWithData>>)
                              ELSE newNodesWithData
         IN /\ nodes' = IF nodeCount = 1 /\ isModifying
                        THEN [i \in 1..Len(nodes) |->
                                 IF nodes[i].id = newNode.id THEN newNodeWithData ELSE nodes[i]]
                        ELSE nodes \o newNodesAdded
            /\ isModifying' = IF nodeCount = 1 THEN FALSE ELSE isModifying
            /\ nodeInterfaces' = InitializeAll(nodeInterfaces, newNodesAdded, Len(newNodesAdded))
            /\ RenderYaml(nodes \o newNodesAdded, edges)
            /\ ResetNodeForm
            /\ UNCHANGED edges

handleModalSubmit ==
    /\ NodeFormOpen
    /\ Len(nodes) + (IF modalType = "create" THEN nodeCount ELSE 0) <= MaxNodes
    /\ modalType = "create" => HighestNodeNum(nodes, nodeNamePrefix) + nodeCount <= MaxNodeNum
    /\ IF modalType = "modify"
       THEN /\ SubmitModify
            /\ UNCHANGED <<nodeName, nodeNamePrefix, nodeKind, nodeImage, nodeBinds, nodeMgmtIp,
                           nodeIpv6MgmtIp, nodeCount, nodeStartupConfig>>
       ELSE SubmitCreate
    /\ UNCHANGED <<modalType, newNode, nodeCustomFields>>
    /\ UNCHANGED <<isYamlValid, yamlParseError, settingVars, edgeFormVars, uiVars>>
    /\ UNCHANGED <<timers, callVars, deployVars>>

(***************************************************************************)
(* The context menu: modify and remove.  The menu is used right after it   *)
(* opens: while it is open the only events are its own buttons.            *)
(***************************************************************************)
MenuOpen(type) == NoModal /\ contextMenu.type = type

onNodeContextMenu(node) ==
    /\ CanvasFree
    /\ contextMenu' = [type |-> "node", node |-> node, edge |-> NoEdge]
    /\ UNCHANGED <<showErrorModal, errorMessage, mgmtWarning>>
    /\ UNCHANGED <<graphVars, docVars, settingVars, nodeFormVars, edgeFormVars>>
    /\ UNCHANGED <<timers, callVars, deployVars>>

onEdgeContextMenu(edge) ==
    /\ CanvasFree
    /\ contextMenu' = [type |-> "edge", node |-> NoNode, edge |-> edge]
    /\ UNCHANGED <<showErrorModal, errorMessage, mgmtWarning>>
    /\ UNCHANGED <<graphVars, docVars, settingVars, nodeFormVars, edgeFormVars>>
    /\ UNCHANGED <<timers, callVars, deployVars>>

handleContextMenuClose ==
    /\ NoModal /\ contextMenu.type # "none"
    /\ contextMenu' = NoMenu
    /\ UNCHANGED <<showErrorModal, errorMessage, mgmtWarning>>
    /\ UNCHANGED <<graphVars, docVars, settingVars, nodeFormVars, edgeFormVars>>
    /\ UNCHANGED <<timers, callVars, deployVars>>

handleRemoveNode ==
    /\ MenuOpen("node")
    /\ LET nodeToRemove == contextMenu.node
           updatedNodes == SelectSeq(nodes, LAMBDA n : n.id # nodeToRemove.id)
           updatedEdges == SelectSeq(edges, LAMBDA e : e.source # nodeToRemove.id
                                                       /\ e.target # nodeToRemove.id)
       IN /\ nodes' = updatedNodes
          /\ edges' = updatedEdges
          /\ RenderYaml(updatedNodes, updatedEdges)
    /\ contextMenu' = NoMenu
    /\ UNCHANGED <<nodeInterfaces, isYamlValid, yamlParseError>>
    /\ UNCHANGED <<showErrorModal, errorMessage, mgmtWarning>>
    /\ UNCHANGED <<settingVars, nodeFormVars, edgeFormVars>>
    /\ UNCHANGED <<timers, callVars, deployVars>>

\* { ...prev, [edge.source]: prev[edge.source].filter(...), [edge.target]: prev[edge.target].filter(...) }
Retract(prev, edge) ==
    RegSet(RegSet(prev, edge.source, Without(prev[edge.source], edge.sourceInterface)),
           edge.target, Without(prev[edge.target], edge.targetInterface))

\* prev[edge.source] and prev[edge.target] are lists: the updater does not throw
CanRetract(prev, edge) == edge.source \in DOMAIN prev /\ edge.target \in DOMAIN prev

handleRemoveEdge ==
    /\ MenuOpen("edge")
    /\ LET edgeToRemove == contextMenu.edge
           updatedEdges == SelectSeq(edges, LAMBDA e : e.id # edgeToRemove.id)
       IN /\ CanRetract(nodeInterfaces, edgeToRemove)
          /\ nodeInterfaces' = Retract(nodeInterfaces, edgeToRemove)
          /\ edges' = updatedEdges
          /\ RenderYaml(nodes, updatedEdges)
    /\ contextMenu' = NoMenu
    /\ UNCHANGED <<nodes, isYamlValid, yamlParseError>>
    /\ UNCHANGED <<showErrorModal, errorMessage, mgmtWarning>>
    /\ UNCHANGED <<settingVars, nodeFormVars, edgeFormVars>>
    /\ UNCHANGED <<timers, callVars, deployVars>>

\* nodeLabel.toLowerCase().includes('router')
IsRouter(label) == Includes(label, <<"r", "o", "u", "t", "e", "r">>)

handleModifyNode ==
    /\ MenuOpen("node")
    /\ LET nodeToModify == contextMenu.node
           nodeLabel == nodeToModify.label
       IN /\ nodeNamePrefix' = Split(nodeLabel, "_")[1]
          /\ nodeKind' = IF nodeToModify.kind # "" THEN nodeToModify.kind
                         ELSE IF IsRouter(nodeLabel) THEN "ceos" ELSE "linux"
          /\ nodeImage' = IF nodeToModify.image # "" THEN nodeToModify.image
                          ELSE IF IsRouter(nodeLabel) THEN "ceos:4.34.0F" ELSE "alpine"
          /\ nodeCount' = 1
          /\ nodeBinds' = nodeToModify.binds
          /\ nodeMgmtIp' = nodeToModify.mgmtIp
          /\ nodeIpv6MgmtIp' = nodeToModify.ipv6MgmtIp
          /\ newNode' = nodeToModify
    /\ isModifying' = TRUE
    /\ isModalOpen' = TRUE
    /\ modalType' = "modify"
    /\ contextMenu' = NoMenu
    /\ UNCHANGED <<nodeName, nodeStartupConfig, nodeCustomFields, nodeModalWarning>>
    /\ UNCHANGED <<showErrorModal, errorMessage, mgmtWarning>>
    /\ UNCHANGED <<graphVars, docVars, settingVars, edgeFormVars>>
    /\ UNCHANGED <<timers, callVars, deployVars>>

HasNode(nodeId) == \E i \in 1..Len(nodes) : nodes[i].id = nodeId

\* a menu entry whose nodes.find(...) is undefined throws after the two interface fields are set
handleModifyEdge ==
    /\ MenuOpen("edge")
    /\ LET edgeToModify == contextMenu.edge
       IN /\ sourceInterface' = IF Falsy(edgeToModify.sourceInterface) THEN <<>>
                                ELSE edgeToModify.sourceInterface
          /\ targetInterface' = IF Falsy(edgeToModify.targetInterface) THEN <<>>
                                ELSE edgeToModify.targetInterface
          /\ IF HasNode(edgeToModify.source) /\ HasNode(edgeToModify.target)
             THEN /\ newEdgeData' = edgeToModify
                  /\ isEdgeModalOpen' = TRUE
                  /\ isModifyingEdge' = TRUE
                  /\ contextMenu' = NoMenu
             ELSE UNCHANGED <<newEdgeData, isEdgeModalOpen, isModifyingEdge, contextMenu>>
    /\ UNCHANGED edgeModalWarning
    /\ UNCHANGED <<showErrorModal, errorMessage, mgmtWarning>>
    /\ UNCHANGED <<graphVars, docVars, settingVars, nodeFormVars>>
    /\ UNCHANGED <<timers, callVars, deployVars>>

(***************************************************************************)
(* The edge form.                                                          *)
(***************************************************************************)
TypedInterfaces == {<<>>, Eth(0), Eth(1), Eth(55)}

onConnect(source, target) ==
    /\ CanvasFree
    /\ IF MgmtInvalid
       THEN /\ mgmtWarning' = TRUE
            /\ UNCHANGED edgeFormVars
       ELSE /\ mgmtWarning' = (IF showMgmt THEN FALSE ELSE mgmtWarning)
            /\ IF HasNode(source) /\ HasNode(target)
               THEN LET sourceInterfaceNumber == getNextInterfaceNumber(nodeInterfaces, source)
                        targetInterfaceNumber == getNextInterfaceNumber(nodeInterfaces, target)
                    IN /\ newEdgeData' = Edge(Undefined, source, target,
                                              Eth(sourceInterfaceNumber),
                                              Eth(targetInterfaceNumber))
                       /\ sourceInterface' = Eth(sourceInterfaceNumber)
                       /\ targetInterface' = Eth(targetInterfaceNumber)
                       /\ isEdgeModalOpen' = TRUE
                       /\ UNCHANGED <<isModifyingEdge, edgeModalWarning>>
               ELSE UNCHANGED edgeFormVars
    /\ UNCHANGED <<showErrorModal, errorMessage, contextMenu>>
    /\ UNCHANGED <<graphVars, docVars, settingVars, nodeFormVars>>
    /\ UNCHANGED <<timers, callVars, deployVars>>

EdgeFormOpen == isEdgeModalOpen /\ ~showErrorModal

setSourceInterface(value) ==
    /\ EdgeFormOpen
    /\ sourceInterface' = value
    /\ UNCHANGED <<isEdgeModalOpen, newEdgeData, targetInterface, isModifyingEdge,
                   edgeModalWarning>>
    /\ UNCHANGED <<graphVars, docVars, settingVars, nodeFormVars, uiVars>>
    /\ UNCHANGED <<timers, callVars, deployVars>>

setTargetInterface(value) ==
    /\ EdgeFormOpen
    /\ targetInterface' = value
    /\ UNCHANGED <<isEdgeModalOpen, newEdgeData, sourceInterface, isModifyingEdge,
                   edgeModalWarning>>
    /\ UNCHANGED <<graphVars, docVars, settingVars, nodeFormVars, uiVars>>
    /\ UNCHANGED <<timers, callVars, deployVars>>

\* the Cancel button of the edge form
cancelEdgeModal ==
    /\ EdgeFormOpen
    /\ isEdgeModalOpen' = FALSE
    /\ sourceInterface' = <<>>
    /\ targetInterface' = <<>>
    /\ newEdgeData' = NoEdge
    /\ edgeModalWarning' = FALSE
    /\ UNCHANGED isModifyingEdge
    /\ UNCHANGED <<graphVars, docVars, settingVars, nodeFormVars, uiVars>>
    /\ UNCHANGED <<timers, callVars, deployVars>>

\* the button of the error dialog: setShowErrorModal(false)
closeErrorModal ==
    /\ showErrorModal
    /\ showErrorModal' = FALSE
    /\ UNCHANGED <<errorMessage, mgmtWarning, contextMenu>>
    /\ UNCHANGED <<graphVars, docVars, settingVars, nodeFormVars, edgeFormVars>>
    /\ UNCHANGED <<timers, callVars, deployVars>>

\* `edge_${source}_${target}_${sourceInterface}_${targetInterface}`
EdgeId(source, target, si, ti) ==
    edge_ \o source \o <<"_">> \o target \o <<"_">> \o si \o <<"_">> \o ti

\* a registry update that records the source's interface and forgets the target's
updateSourceInterfaceOnly(prev, source, target, si, ti) ==
    RegSet(prev, source, Append(UsedInterfaces(prev, source), si))

\* { ...prev, [source]: [...(prev[source] || []), si], [target]: [...(prev[target] || []), ti] }
updateNodeInterfaces(prev, source, target, si, ti) ==
    RegSet(RegSet(prev, source, Append(UsedInterfaces(prev, source), si)),
           target, Append(UsedInterfaces(prev, target), ti))

IsDuplicateEdge(edge, newEdge) ==
    /\ edge.source = newEdge.source
    /\ edge.target = newEdge.target
    /\ edge.sourceInterface = newEdge.sourceInterface
    /\ edge.targetInterface = newEdge.targetInterface

\* the form's reset at the end of an edge submit
CloseEdgeForm ==
    /\ isEdgeModalOpen' = FALSE
    /\ sourceInterface' = <<>>
    /\ targetInterface' = <<>>
    /\ newEdgeData' = NoEdge
    /\ edgeModalWarning' = FALSE

\* the registry does not outgrow the model
RegistryBounded(reg) == \A k \in DOMAIN reg : Len(reg[k]) <= MaxRegistry

handleEdgeModalSubmit ==
    /\ EdgeFormOpen
    /\ IF Trim(sourceInterface) = <<>> \/ Trim(targetInterface) = <<>>
       THEN /\ edgeModalWarning' = TRUE
            /\ UNCHANGED <<isEdgeModalOpen, newEdgeData, sourceInterface, targetInterface,
                           isModifyingEdge>>
            /\ UNCHANGED <<graphVars, yamlOutput, editableYaml, showErrorModal, errorMessage>>
       ELSE IF ~validateInterface(sourceInterface) \/ ~validateInterface(targetInterface)
       THEN /\ errorMessage' = "Interface names must be in the format \"eth\" followed by a number (1-54)"
            /\ showErrorModal' = TRUE
            /\ UNCHANGED edgeFormVars
            /\ UNCHANGED <<graphVars, yamlOutput, editableYaml>>
       ELSE LET edgeId == IF isModifyingEdge THEN newEdgeData.id
                          ELSE EdgeId(newEdgeData.source, newEdgeData.target,
                                      sourceInterface, targetInterface)
                newEdge == Edge(edgeId, newEdgeData.source, newEdgeData.target,
                                sourceInterface, targetInterface)
                hasOld == isModifyingEdge /\ \E i \in 1..Len(edges) : edges[i].id = edgeId
                oldEdge == edges[CHOOSE i \in 1..Len(edges) :
                                    /\ edges[i].id = edgeId
                                    /\ \A j \in 1..(i - 1) : edges[j].id # edgeId]
                retracted == IF hasOld THEN Retract(nodeInterfaces, oldEdge) ELSE nodeInterfaces
                duplicateEdge == \E i \in 1..Len(edges) : IsDuplicateEdge(edges[i], newEdge)
                updatedEdges == IF isModifyingEdge
                                THEN [i \in 1..Len(edges) |->
                                         IF edges[i].id = edgeId THEN newEdge ELSE edges[i]]
                                ELSE IF duplicateEdge THEN edges
                                ELSE Append(edges, newEdge)
            IN /\ hasOld => CanRetract(nodeInterfaces, oldEdge)
               /\ nodeInterfaces' = updateNodeInterfaces(retracted, newEdge.source,
                                                         newEdge.target, sourceInterface,
                                                         targetInterface)
               /\ RegistryBounded(nodeInterfaces')
               /\ Len(updatedEdges) <= MaxEdges
               /\ edges' = updatedEdges
               /\ IF ~isModifyingEdge /\ duplicateEdge
                  THEN UNCHANGED <<yamlOutput, editableYaml>>
                  ELSE RenderYaml(nodes, updatedEdges)
               /\ isModifyingEdge' = FALSE
               /\ CloseEdgeForm
               /\ UNCHANGED <<nodes, showErrorModal, errorMessage>>
    /\ UNCHANGED <<isYamlValid, yamlParseError, mgmtWarning, contextMenu>>
    /\ UNCHANGED <<settingVars, nodeFormVars>>
    /\ UNCHANGED <<timers, callVars, deployVars>>

(***************************************************************************)
(* handleYamlChange: the graph and the settings parsed from a document.    *)
(***************************************************************************)
mgmt_ipv6 == <<"m", "g", "m", "t", "-", "i", "p", "v", "6">>

\* the root-level keys of a node entry that are none of
\* 'kind', 'image', 'binds', 'mgmt-ipv4', 'startup-config', 'env'
RootLevelFields(entry) ==
    entry.extra \o (IF IsSome(entry.mgmt6) THEN <<Field(mgmt_ipv6, Get(entry.mgmt6))>> ELSE <<>>)

\* the node handleYamlChange builds from the index-th (from 0) entry of topology.nodes
ParsedNode(entry, index) ==
    LET fromEnv == IF IsSome(entry.env) THEN Get(entry.env) ELSE RootLevelFields(entry)
        binds == IF IsSome(entry.binds) THEN Get(entry.binds) ELSE <<>>
    IN [id |-> entry.key,
        label |-> entry.key,
        kind |-> IF IsSome(entry.kind) THEN Get(entry.kind) ELSE "",
        image |-> IF IsSome(entry.image) THEN Get(entry.image) ELSE "",
        binds |-> [i \in 1..Len(binds) |-> BindStr(binds[i])],
        mgmtIp |-> IF IsSome(entry.mgmt4) THEN Get(entry.mgmt4) ELSE <<>>,
        ipv6MgmtIp |-> IF IsSome(entry.mgmt6) THEN Get(entry.mgmt6) ELSE <<>>,
        startupConfig |-> IF IsSome(entry.startup) THEN Get(entry.startup) ELSE <<>>,
        customFields |-> IF Len(fromEnv) = 0 THEN EmptyCustomFields ELSE fromEnv,
        position |-> <<100 + (index % 3) * 200, 100 + (index \div 3) * 150>>]

ParsedNodes(entries) == [i \in 1..Len(entries) |-> ParsedNode(entries[i], i - 1)]

\* `edge_${index}`
IndexEdgeId(index) == edge_ \o Dec(index)

\* the edge handleYamlChange builds from the index-th (from 0) link
ParsedEdge(link, index) ==
    Edge(IndexEdgeId(index), EndpointNode(link[1]), EndpointNode(link[2]),
         EndpointInterface(link[1]), EndpointInterface(link[2]))

ParsedEdges(links) == [i \in 1..Len(links) |-> ParsedEdge(links[i], i - 1)]

\* a link without two endpoints: link.endpoints[1].split throws a TypeError
LinksWellFormed(links) == \A i \in 1..Len(links) : Len(links[i]) >= 2

\* currentNodes.find(n => n.data.label === name)?.id
IdOfLabel(currentNodes, name) ==
    IF \E i \in 1..Len(currentNodes) : currentNodes[i].label = name
    THEN currentNodes[CHOOSE i \in 1..Len(currentNodes) :
                         /\ currentNodes[i].label = name
                         /\ \A j \in 1..(i - 1) : currentNodes[j].label # name].id
    ELSE Undefined

AddInterface(reg, nodeId, interface) ==
    IF Falsy(nodeId) THEN reg
    ELSE RegSet(reg, nodeId, Append(UsedInterfaces(reg, nodeId), interface))

RECURSIVE InterfacesFromLinks(_, _, _)
\* newInterfaces of initializeNodeInterfacesFromYaml after the first i links
InterfacesFromLinks(links, currentNodes, i) ==
    IF i = 0 THEN EmptyReg
    ELSE LET prev == InterfacesFromLinks(links, currentNodes, i - 1)
             withSource == AddInterface(prev, IdOfLabel(currentNodes, EndpointNode(links[i][1])),
                                        EndpointInterface(links[i][1]))
         IN AddInterface(withSource, IdOfLabel(currentNodes, EndpointNode(links[i][2])),
                         EndpointInterface(links[i][2]))

\* the registry after initializeNodeInterfacesFromYaml(yamlContent, currentNodes)
initializeNodeInterfacesFromYaml(reg, doc, currentNodes) ==
    IF doc.tag = "map" /\ IsSome(doc.links)
    THEN IF LinksWellFormed(Get(doc.links))
         THEN InterfacesFromLinks(Get(doc.links), currentNodes, Len(Get(doc.links)))
         ELSE reg
    ELSE reg

\* the kind template parsed from an entry of topology.kinds
ParsedKind(k) ==
    [name |-> k.key,
     showStartupConfig |-> IsSome(k.startup) /\ Get(k.startup) # <<>>,
     startupConfig |-> IF IsSome(k.startup) THEN Get(k.startup) ELSE <<>>,
     showImage |-> IsSome(k.image) /\ Get(k.image) # <<>>,
     image |-> IF IsSome(k.image) THEN Get(k.image) ELSE <<>>,
     showExec |-> IsSome(k.exec) /\ Len(Get(k.exec)) > 0,
     exec |-> IF IsSome(k.exec) THEN Get(k.exec) ELSE << <<>> >>,
     showBinds |-> IsSome(k.binds) /\ Len(Get(k.binds)) > 0,
     binds |-> IF IsSome(k.binds) THEN Get(k.binds) ELSE << <<>> >>]

\* a.x || a.y || '' on the keys of the mgmt block
FirstOf(x, y) == IF IsSome(x) /\ Get(x) # <<>> THEN Get(x)
                 ELSE IF IsSome(y) /\ Get(y) # <<>> THEN Get(y) ELSE <<>>

\* the text has a topology.nodes section and maps over it without throwing
ParsesToTopology(doc) ==
    /\ doc.tag = "map"
    /\ IsSome(doc.nodes)
    /\ (IsSome(doc.links) => LinksWellFormed(Get(doc.links)))

ParseErrorOf(doc) ==
    IF doc.tag = "invalid" THEN "Error parsing YAML: bad indentation of a mapping entry"
    ELSE IF doc.tag = "map" /\ IsSome(doc.nodes)
    THEN "Error parsing YAML: Cannot read properties of undefined (reading 'split')"
    ELSE "Error parsing YAML: Invalid YAML structure"

\* the settings handleYamlChange recovers, then the effects
ParsedSettings(doc) ==
    /\ IF IsSome(doc.mgmt)
       THEN LET m == Get(doc.mgmt)
                v6 == FirstOf(m.ipv6_subnet, m.ipv6dash)
            IN /\ showMgmt' = TRUE
               /\ mgmtNetwork' = FirstOf(m.network, m.network)
               /\ ipv4Subnet' = FirstOf(m.ipv4_subnet, m.ipv4dash)
               /\ IF v6 # <<>> THEN showIpv6' = TRUE /\ ipv6Subnet' = v6
                  ELSE UNCHANGED <<showIpv6, ipv6Subnet>>
       ELSE UNCHANGED <<showMgmt, mgmtNetwork, ipv4Subnet, showIpv6, ipv6Subnet>>
    /\ IF IsSome(doc.kinds)
       THEN /\ showKind' = TRUE
            /\ kinds' = IF Len(Get(doc.kinds)) > 0
                        THEN [i \in 1..Len(Get(doc.kinds)) |-> ParsedKind(Get(doc.kinds)[i])]
                        ELSE kinds
       ELSE UNCHANGED <<showKind, kinds>>
    /\ IF IsSome(doc.defaults)
       THEN /\ showDefault' = TRUE
            /\ defaultKind' = Get(doc.defaults)
       ELSE UNCHANGED <<showDefault, defaultKind>>

\* handleYamlChange(newYaml), called with the topology name nameBefore already stored
YamlChange(newYaml, nameBefore) ==
    /\ topologyName' = IF newYaml.tag = "map" /\ IsSome(newYaml.name) /\ Get(newYaml.name) # <<>>
                       THEN Get(newYaml.name) ELSE nameBefore
    /\ IF ParsesToTopology(newYaml)
       THEN LET newNodes == ParsedNodes(Get(newYaml.nodes))
                newEdges == IF IsSome(newYaml.links) THEN ParsedEdges(Get(newYaml.links))
                            ELSE <<>>
            IN /\ nodes' = newNodes
               /\ edges' = newEdges
               /\ nodeInterfaces' = initializeNodeInterfacesFromYaml(nodeInterfaces, newYaml,
                                                                     newNodes)
               /\ isYamlValid' = TRUE
               /\ yamlParseError' = ""
               /\ nodeCustomFields' = IF Len(newNodes) = 1 THEN newNodes[1].customFields
                                      ELSE nodeCustomFields
               /\ ParsedSettings(newYaml)
               /\ CommitYaml(newYaml, newYaml,
                             IsSome(newYaml.kinds) /\ Len(Get(newYaml.kinds)) > 0)
       ELSE /\ isYamlValid' = FALSE
            /\ yamlParseError' = ParseErrorOf(newYaml)
            /\ yamlOutput' = newYaml
            /\ editableYaml' = newYaml
            /\ UNCHANGED <<graphVars, nodeCustomFields>>
            /\ UNCHANGED <<showMgmt, mgmtNetwork, ipv4Subnet, showIpv6, ipv6Subnet,
                           showKind, kinds, showDefault, defaultKind>>
    /\ UNCHANGED <<isModalOpen, modalType, newNode, nodeName, nodeNamePrefix, nodeKind,
                   nodeImage, nodeCount, nodeBinds, nodeMgmtIp, nodeIpv6MgmtIp,
                   nodeStartupConfig, nodeModalWarning, isModifying>>
    /\ UNCHANGED <<edgeFormVars, uiVars>>

(***************************************************************************)
(* The texts the user types into the editor or imports from a file.        *)
(***************************************************************************)
r1 == <<"r", "1">>
r2 == <<"r", "2">>
r9 == <<"r", "9">>
lab == <<"l", "a", "b">>

CeosEntry(k) == [EmptyEntry(k) EXCEPT !.kind = Some("ceos")]

\* name: u-lab / nodes r1, r2 / links [r1:eth1, r2:eth1]
DocLinked ==
    MapDoc(Some(username \o <<"-">> \o lab), Some(<<CeosEntry(r1), CeosEntry(r2)>>),
           Some(<< <<Colon(r1, Eth(1)), Colon(r2, Eth(1))>> >>), None, None, None)

\* nodes r1 / links [r1:eth0, r9]: a link to a node the text does not declare
DocDangling ==
    MapDoc(None, Some(<<CeosEntry(r1)>>),
           Some(<< <<Colon(r1, Eth(0)), r9>> >>), None, None, None)

\* name: lab, and no topology section
DocNameOnly == MapDoc(Some(lab), None, None, None, None, None)

\* name: lab / nodes r1 / a link with one endpoint
DocShortLink ==
    MapDoc(Some(lab), Some(<<CeosEntry(r1)>>), Some(<< <<Colon(r1, Eth(1))>> >>),
           None, None, None)

\* nodes r1 (with mgmt-ipv6) / mgmt block / defaults / kinds
DocSettings ==
    MapDoc(Some(lab),
           Some(<<[CeosEntry(r1) EXCEPT !.mgmt6 = Some(<<"2", ":", ":", "1">>)]>>),
           None,
           Some(MgmtBlock(Some(<<"m">>), None, Some(<<"1", "0", ".", "0", ".", "0", ".", "0", "/", "2", "4">>), None, None)),
           Some("ceos"),
           Some(<<[key |-> ceos, startup |-> None, image |-> Some(<<"i">>),
                   exec |-> None, binds |-> None]>>))

TypedDocs == {EmptyDoc, InvalidDoc, DocLinked, DocDangling, DocNameOnly, DocShortLink, DocSettings}

\* the YAML editor's onChange: the user leaves newYaml in the editor
handleYamlChange(newYaml) ==
    /\ CanvasFree
    /\ YamlChange(newYaml, topologyName)
    /\ UNCHANGED <<timers, callVars, deployVars>>

\* the file dialog hands over content: a text of TypedDocs, or the document saved before
handleImportedContent(content) ==
    /\ CanvasFree
    /\ IF content.tag = "map"
       THEN LET importedName == IF IsSome(content.name) THEN Get(content.name) ELSE <<>>
            IN IF importedName # <<>> /\ ~Includes(importedName, username)
               THEN LET updatedName == username \o <<"-">> \o importedName
                    IN YamlChange([content EXCEPT !.name = Some(updatedName)], updatedName)
               ELSE YamlChange(content, importedName)
       ELSE IF content.tag = "empty"
       THEN YamlChange(content, <<>>)
       ELSE YamlChange(content, topologyName)
    /\ UNCHANGED <<timers, callVars, deployVars>>

(***************************************************************************)
(* handleReset.                                                            *)
(***************************************************************************)
handleReset ==
    /\ CanvasFree
    /\ topologyName' = <<>>
    /\ showMgmt' = FALSE /\ mgmtNetwork' = <<>> /\ ipv4Subnet' = <<>>
    /\ showIpv6' = FALSE /\ ipv6Subnet' = <<>>
    /\ showKind' = FALSE /\ kinds' = <<EmptyKind>>
    /\ showDefault' = FALSE /\ defaultKind' = ""
    /\ nodes' = <<>>
    /\ edges' = <<>>
    /\ isYamlValid' = TRUE
    /\ yamlParseError' = ""
    /\ CommitYaml(EmptyDoc, EmptyDoc, TRUE)
    /\ UNCHANGED <<nodeInterfaces, nodeFormVars, edgeFormVars, uiVars>>
    /\ UNCHANGED <<timers, callVars, deployVars>>

(***************************************************************************)
(* Calls of validateInterface and generateIpsFromSubnet with arguments of  *)
(* the caller's choice.                                                    *)
(***************************************************************************)
\* the strings handed to validateInterface: eth0 .. eth120 and near misses
ProbedInterfaces ==
    {Eth(n) : n \in 0..120}
    \cup {<<>>, eth, <<"E", "t", "h", "1">>, eth \o <<"0", "1">>, eth \o <<"1", "x">>,
          <<" ">> \o Eth(1), Eth(1) \o <<" ">>, <<"e", "t", "1">>}

\* `${a}.${b}.${c}.${d}/${mask}`
Cidr(q) == JoinDots(<<q[1], q[2], q[3], q[4]>>) \o <<"/">> \o Dec(q[5])

\* a.b.c.d/mask with four octets in 0..255 and a mask in 0..32
WellFormedCidrs ==
    {<<192, 168, 1, 0, 24>>, <<172, 20, 20, 0, 24>>, <<10, 0, 0, 0, 30>>,
     <<10, 0, 0, 8, 29>>, <<10, 1, 2, 3, 8>>, <<0, 0, 0, 0, 0>>, <<255, 255, 255, 255, 32>>}

\* a subnet text that is no a.b.c.d/mask
MalformedCidrs ==
    LET ip == JoinDots(<<10, 0, 0, 0>>)
    IN {<<>>, <<" ">>, ip,
        ip \o <<"/">>,
        ip \o <<"/", "2", "4", "/", "1">>,
        ip \o <<"/", "3", "3">>,
        ip \o <<"/", "-", "1">>,
        ip \o <<"/", "x">>,
        ip \o <<"/", "2", "4", "x">>,
        <<"1", "0", ".", "0", ".", "0", "/", "2", "4">>,
        ip \o <<".", "0", "/", "2", "4">>,
        <<"1", "0", ".", "0", ".", "2", "5", "6", ".", "0", "/", "2", "4">>,
        <<"1", "0", ".", "0", ".", "a", ".", "0", "/", "2", "4">>,
        <<"1", "0", ".", "0", ".", "1", "x", ".", "0", "/", "2", "4">>,
        <<"1", "0", ".", "0", ".", "-", "1", ".", "0", "/", "2", "4">>}

\* nodes.length of the caller
ProbedCounts == {0, 1, 2, 5, 10, 253, 254, 300}

ValidateCall(name) ==
    [fn |-> "validateInterface", interfaceName |-> name, subnet |-> <<>>, count |-> 0]

SubnetCall(subnet, count) ==
    [fn |-> "generateIpsFromSubnet", interfaceName |-> <<>>, subnet |-> subnet,
     count |-> count]

Calls ==
    {ValidateCall(name) : name \in ProbedInterfaces}
    \cup {SubnetCall(subnet, count) :
             subnet \in {Cidr(q) : q \in WellFormedCidrs} \cup MalformedCidrs,
             count \in ProbedCounts}

\* the function is about to be called with the arguments of call
CallInit == Mounted /\ call \in Calls /\ returned = NotReturned

validateInterfaceReturns ==
    /\ call.fn = "validateInterface" /\ ~returned.done
    /\ returned' = [done |-> TRUE, valid |-> validateInterface(call.interfaceName),
                    ips |-> <<>>]
    /\ UNCHANGED <<graphVars, docVars, settingVars, nodeFormVars, edgeFormVars, uiVars>>
    /\ UNCHANGED <<timers, call, deployVars>>

generateIpsFromSubnetReturns ==
    /\ call.fn = "generateIpsFromSubnet" /\ ~returned.done
    /\ returned' = [done |-> TRUE, valid |-> FALSE,
                    ips |-> generateIpsFromSubnet(call.subnet, call.count)]
    /\ UNCHANGED <<graphVars, docVars, settingVars, nodeFormVars, edgeFormVars, uiVars>>
    /\ UNCHANGED <<timers, call, deployVars>>

CallNext == validateInterfaceReturns \/ generateIpsFromSubnetReturns

CallSpec == CallInit /\ [][CallNext]_vars

(***************************************************************************)
(* handleTopologyNameChange: the topology name field.  The handler builds  *)
(* its document itself, without updateYaml.                                *)
(***************************************************************************)
\* what the user leaves in the topology name field
TypedTopologyNames == {<<>>, lab, username \o <<"-">> \o lab}

\* nodes.find(n => n.id === id).data.label
LabelOf(id) == nodes[CHOOSE i \in 1..Len(nodes) : nodes[i].id = id].label

\* bind.trim() on a bind that is an object, or .data of a node find() did not return:
\* the handler ends with a TypeError, after setTopologyName
NameChangeThrows ==
    \/ \E i \in 1..Len(nodes) : \E j \in 1..Len(nodes[i].binds) : nodes[i].binds[j].form # "string"
    \/ \E i \in 1..Len(edges) : ~HasNode(edges[i].source) \/ ~HasNode(edges[i].target)

\* nodeConfig of the reduce over nodes
NameChangeNodeEntry(node) ==
    LET texts == [j \in 1..Len(node.binds) |-> node.binds[j].text]
    IN [EmptyEntry(node.label) EXCEPT
           !.kind = IF node.kind # "" THEN Some(node.kind) ELSE None,
           !.image = IF node.image # "" THEN Some(node.image) ELSE None,
           !.binds = IF \E j \in 1..Len(texts) : NonBlank(texts[j])
                     THEN Some(SelectSeq(texts, NonBlank)) ELSE None,
           !.mgmt4 = IF ~Falsy(node.mgmtIp) /\ NonBlank(node.mgmtIp)
                     THEN Some(node.mgmtIp) ELSE None,
           !.startup = IF ~Falsy(node.startupConfig) /\ NonBlank(node.startupConfig)
                       THEN Some(node.startupConfig) ELSE None]

RECURSIVE NameChangeNodes(_)
\* acc[node.data.label] = nodeConfig over the first i nodes
NameChangeNodes(i) ==
    IF i = 0 THEN <<>> ELSE Put(NameChangeNodes(i - 1), NameChangeNodeEntry(nodes[i]))

NameChangeLinks ==
    [i \in 1..Len(edges) |-> <<Colon(LabelOf(edges[i].source), edges[i].sourceInterface),
                               Colon(LabelOf(edges[i].target), edges[i].targetInterface)>>]

NonEmpty(x) == x # <<>>

\* acc[kind.name] of the reduce over kinds
NameChangeKindEntry(kind) ==
    [key |-> kind.name,
     startup |-> IF kind.showStartupConfig THEN Some(kind.startupConfig) ELSE None,
     image |-> IF kind.showImage THEN Some(kind.image) ELSE None,
     exec |-> IF kind.showExec THEN Some(SelectSeq(kind.exec, NonEmpty)) ELSE None,
     binds |-> IF kind.showBinds THEN Some(SelectSeq(kind.binds, NonEmpty)) ELSE None]

RECURSIVE NameChangeKinds(_)
NameChangeKinds(i) ==
    IF i = 0 THEN <<>>
    ELSE IF kinds[i].name # <<>> THEN Put(NameChangeKinds(i - 1), NameChangeKindEntry(kinds[i]))
         ELSE NameChangeKinds(i - 1)

\* yamlData
NameChangeDoc(newTopologyName) ==
    MapDoc(Some(username \o <<"-">> \o newTopologyName),
           Some(NameChangeNodes(Len(nodes))),
           Some(NameChangeLinks),
           IF showMgmt
           THEN Some(MgmtBlock(Some(mgmtNetwork), None, Some(ipv4Subnet), None,
                               IF showIpv6 /\ ipv6Subnet # <<>> THEN Some(ipv6Subnet) ELSE None))
           ELSE None,
           IF showDefault /\ defaultKind # "" THEN Some(defaultKind) ELSE None,
           IF showKind /\ Len(kinds) > 0 THEN Some(NameChangeKinds(Len(kinds))) ELSE None)

handleTopologyNameChange(newTopologyName) ==
    /\ CanvasFree
    /\ newTopologyName # topologyName
    /\ topologyName' = newTopologyName
    /\ IF NameChangeThrows
       THEN UNCHANGED <<yamlOutput, editableYaml>>
       ELSE /\ yamlOutput' = NameChangeDoc(newTopologyName)
            /\ editableYaml' = yamlOutput'
    /\ UNCHANGED <<graphVars, isYamlValid, yamlParseError>>
    /\ UNCHANGED <<showMgmt, mgmtNetwork, ipv4Subnet, showIpv6, ipv6Subnet,
                   showKind, kinds, showDefault, defaultKind>>
    /\ UNCHANGED <<nodeFormVars, edgeFormVars, uiVars>>
    /\ UNCHANGED <<timers, callVars, deployVars>>

(***************************************************************************)
(* The management settings panel: the checkbox, the network name, the IPv4 *)
(* subnet, the Re-assign button, and the timeout autoAssignMgmtIPs sets.   *)
(***************************************************************************)
MaxTimers == 2

\* what the user types into the network name and the IPv4 subnet fields
TypedNetworks == {<<"m">>}
TypedSubnets == {Cidr(<<172, 20, 20, 0, 24>>), Cidr(<<10, 0, 0, 0, 24>>)}

\* nodes.map((node, index) => index < ips.length ? {...node, data: {...node.data, mgmtIp: ips[index]}} : node)
AssignedNodes(ns, ips) ==
    [index \in 1..Len(ns) |-> IF index <= Len(ips)
                              THEN [ns[index] EXCEPT !.mgmtIp = ips[index]]
                              ELSE ns[index]]

\* setTimeout(() => { updateYaml(updatedNodes, edges); }, 10): the callback keeps the
\* edges, the settings and the yamlOutput of the render that created it
Timeout(updatedNodes) ==
    [nodes |-> updatedNodes, edges |-> edges, cl |-> SettingsNow, yaml |-> yamlOutput]

autoAssignMgmtIPs(subnet) ==
    LET ips == generateIpsFromSubnet(subnet, Len(nodes))
    IN IF Len(nodes) = 0 \/ Len(ips) = 0
       THEN UNCHANGED <<nodes, timers>>
       ELSE /\ Len(timers) < MaxTimers
            /\ nodes' = AssignedNodes(nodes, ips)
            /\ timers' = Append(timers, Timeout(AssignedNodes(nodes, ips)))

\* the "Add Management" checkbox
handleMgmtCheckbox(isChecked) ==
    /\ CanvasFree
    /\ isChecked # showMgmt
    /\ IF Trim(topologyName) = <<>>
       THEN topologyName' \in RandomNames
       ELSE UNCHANGED topologyName
    /\ showMgmt' = isChecked
    /\ IF ~isChecked
       THEN /\ mgmtNetwork' = <<>> /\ ipv4Subnet' = <<>> /\ ipv6Subnet' = <<>>
            /\ showIpv6' = FALSE
            /\ nodes' = [i \in 1..Len(nodes) |-> [nodes[i] EXCEPT !.mgmtIp = <<>>]]
            /\ UNCHANGED timers
       ELSE /\ IF Trim(ipv4Subnet) # <<>>
               THEN autoAssignMgmtIPs(ipv4Subnet)
               ELSE UNCHANGED <<nodes, timers>>
            /\ UNCHANGED <<mgmtNetwork, ipv4Subnet, ipv6Subnet, showIpv6>>
    /\ UNCHANGED <<edges, nodeInterfaces, isYamlValid, yamlParseError>>
    /\ UNCHANGED <<showKind, kinds, showDefault, defaultKind>>
    /\ LET y == updateYaml(nodes, edges, SettingsNow, yamlOutput)
       IN CommitYaml(y, y, FALSE)
    /\ UNCHANGED <<nodeFormVars, edgeFormVars, uiVars, callVars, deployVars>>

\* the network name field, shown while the checkbox is ticked
handleMgmtNetworkChange(newValue) ==
    /\ CanvasFree
    /\ showMgmt
    /\ newValue # mgmtNetwork
    /\ mgmtNetwork' = newValue
    /\ mgmtWarning' = IF showMgmt /\ Trim(newValue) # <<>> /\ Trim(ipv4Subnet) # <<>>
                      THEN FALSE ELSE mgmtWarning
    /\ UNCHANGED <<graphVars, isYamlValid, yamlParseError, timers>>
    /\ UNCHANGED <<topologyName, showMgmt, ipv4Subnet, showIpv6, ipv6Subnet,
                   showKind, kinds, showDefault, defaultKind>>
    /\ CommitYaml(yamlOutput, editableYaml, FALSE)
    /\ UNCHANGED <<nodeFormVars, edgeFormVars, showErrorModal, errorMessage, contextMenu>>
    /\ UNCHANGED <<callVars, deployVars>>

\* the IPv4 subnet field, shown while the checkbox is ticked
handleIpv4SubnetChange(newValue) ==
    /\ CanvasFree
    /\ showMgmt
    /\ newValue # ipv4Subnet
    /\ ipv4Subnet' = newValue
    /\ IF showMgmt /\ Trim(newValue) # <<>> /\ Trim(mgmtNetwork) # <<>>
       THEN /\ mgmtWarning' = FALSE
            /\ autoAssignMgmtIPs(newValue)
       ELSE UNCHANGED <<mgmtWarning, nodes, timers>>
    /\ UNCHANGED <<edges, nodeInterfaces, isYamlValid, yamlParseError>>
    /\ UNCHANGED <<topologyName, showMgmt, mgmtNetwork, showIpv6, ipv6Subnet,
                   showKind, kinds, showDefault, defaultKind>>
    /\ CommitYaml(yamlOutput, editableYaml, FALSE)
    /\ UNCHANGED <<nodeFormVars, edgeFormVars, showErrorModal, errorMessage, contextMenu>>
    /\ UNCHANGED <<callVars, deployVars>>

\* the Re-assign button: onClick={() => autoAssignMgmtIPs(ipv4Subnet)}
reassignMgmtIPs ==
    /\ CanvasFree
    /\ showMgmt
    /\ ~Falsy(ipv4Subnet) /\ ~Falsy(mgmtNetwork) /\ Len(nodes) > 0
    /\ autoAssignMgmtIPs(ipv4Subnet)
    /\ UNCHANGED <<edges, nodeInterfaces, docVars, settingVars>>
    /\ UNCHANGED <<nodeFormVars, edgeFormVars, uiVars, callVars, deployVars>>

\* the callback of the oldest timeout runs: updateYaml in the closure that set it
updateYamlTimeout ==
    /\ timers # <<>>
    /\ LET t == Head(timers)
       IN /\ yamlOutput' = updateYaml(t.nodes, t.edges, t.cl, t.yaml)
          /\ editableYaml' = yamlOutput'
    /\ timers' = Tail(timers)
    /\ UNCHANGED <<graphVars, isYamlValid, yamlParseError, settingVars>>
    /\ UNCHANGED <<nodeFormVars, edgeFormVars, uiVars, callVars, deployVars>>

(***************************************************************************)
(* Deployment: the Deploy button, the server dialog (one server), and the  *)
(* asynchronous handleServerDeploy, which runs up to its first await in the *)
(* click and continues when the server answers.  Fixed texts of the bind    *)
(* mount are single elements of the string.                                 *)
(***************************************************************************)
\* the Deploy button of the sidebar, disabled while the document is empty
handleDeploy ==
    /\ CanvasFree
    /\ yamlOutput.tag # "empty"
    /\ NameIfBlank
    /\ isDeployModalOpen' = TRUE
    /\ UNCHANGED <<graphVars, editableYaml, isYamlValid, yamlParseError>>
    /\ UNCHANGED <<showMgmt, mgmtNetwork, ipv4Subnet, showIpv6, ipv6Subnet,
                   showKind, kinds, showDefault, defaultKind>>
    /\ UNCHANGED <<nodeFormVars, edgeFormVars, uiVars, timers, callVars>>
    /\ UNCHANGED <<showLogModal, autoAssignMacSn, deployLoading, deployment>>

\* the server dialog takes an event: it is open and the log dialog does not cover it
DeployModalFree == isDeployModalOpen /\ ~showLogModal

\* the "Auto-assign MAC & S/N" checkbox of the server
handleAutoAssignChange(isChecked) ==
    /\ DeployModalFree
    /\ autoAssignMacSn' = isChecked
    /\ UNCHANGED <<graphVars, docVars, settingVars, nodeFormVars, edgeFormVars, uiVars>>
    /\ UNCHANGED <<timers, callVars>>
    /\ UNCHANGED <<isDeployModalOpen, showLogModal, deployLoading, deployment>>

\* Cancel of the server dialog: setIsDeployModalOpen(false)
cancelDeployModal ==
    /\ DeployModalFree
    /\ isDeployModalOpen' = FALSE
    /\ UNCHANGED <<graphVars, docVars, settingVars, nodeFormVars, edgeFormVars, uiVars>>
    /\ UNCHANGED <<timers, callVars>>
    /\ UNCHANGED <<showLogModal, autoAssignMacSn, deployLoading, deployment>>

\* onClose of the log dialog: setShowLogModal(false)
closeLogModal ==
    /\ showLogModal
    /\ showLogModal' = FALSE
    /\ UNCHANGED <<graphVars, docVars, settingVars, nodeFormVars, edgeFormVars, uiVars>>
    /\ UNCHANGED <<timers, callVars>>
    /\ UNCHANGED <<isDeployModalOpen, autoAssignMacSn, deployLoading, deployment>>

\* yaml.load(yamlOutput) throws, or parsedYaml.name / Object.keys(parsedYaml.topology.nodes)
\* of the auto-assign branch throws: the catch block logs the error
DeployThrows ==
    \/ yamlOutput.tag = "invalid"
    \/ autoAssignMacSn /\ (yamlOutput.tag # "map" \/ ~IsSome(yamlOutput.nodes))

\* the Deploy button of the server, disabled while deployLoading[serverIp]
handleServerDeploy ==
    /\ DeployModalFree
    /\ ~deployLoading
    /\ showLogModal' = TRUE
    /\ IF DeployThrows
       THEN UNCHANGED <<deployLoading, deployment>>
       ELSE /\ deployLoading' = TRUE
            /\ deployment' = [pc |-> IF autoAssignMacSn THEN "sn" ELSE "deploy",
                              parsedYaml |-> yamlOutput]
    /\ UNCHANGED <<graphVars, docVars, settingVars, nodeFormVars, edgeFormVars, uiVars>>
    /\ UNCHANGED <<timers, callVars>>
    /\ UNCHANGED <<isDeployModalOpen, autoAssignMacSn>>

CeosConfigRo == <<"/mnt/flash/ceos-config:ro">>

\* `/home/clab_nfs_share/containerlab_topologies/${user.username}/${topologyName}/sn/${nodeName}.txt:/mnt/flash/ceos-config:ro`
SnBind(name, node) ==
    <<"/home/clab_nfs_share/containerlab_topologies/">> \o username \o <<"/">> \o name
        \o <<"/sn/">> \o node \o <<".txt:">> \o CeosConfigRo

\* parsedYaml.topology.nodes[nodeName].binds after the loop over the nodes
SnEntry(entry, name) ==
    LET binds == IF IsSome(entry.binds) THEN Get(entry.binds) ELSE <<>>
    IN [entry EXCEPT !.binds =
           Some(<<SnBind(name, entry.key)>>
                \o SelectSeq(binds, LAMBDA bind : ~Includes(bind, CeosConfigRo)))]

\* parsedYaml when every file of the sn directory was created
WithSnBinds(parsedYaml) ==
    LET name == IF IsSome(parsedYaml.name) THEN Get(parsedYaml.name) ELSE Undefined
        entries == Get(parsedYaml.nodes)
    IN [parsedYaml EXCEPT !.nodes = Some([i \in 1..Len(entries) |-> SnEntry(entries[i], name)])]

\* the createDirectory and createFile requests are answered: with an error the catch
\* block ends the deployment, otherwise the document with the bind mounts is stored
\* (yamlNeedsUpdate: the document has a node) and the deploy request is sent
snResponds(ok) ==
    /\ deployment.pc = "sn"
    /\ IF ok
       THEN /\ IF Len(Get(deployment.parsedYaml.nodes)) > 0
               THEN /\ yamlOutput' = WithSnBinds(deployment.parsedYaml)
                    /\ editableYaml' = yamlOutput'
               ELSE UNCHANGED <<yamlOutput, editableYaml>>
            /\ deployment' = [deployment EXCEPT !.pc = "deploy"]
            /\ UNCHANGED deployLoading
       ELSE /\ deployment' = NoDeployment
            /\ deployLoading' = FALSE
            /\ UNCHANGED <<yamlOutput, editableYaml>>
    /\ UNCHANGED <<graphVars, isYamlValid, yamlParseError, settingVars>>
    /\ UNCHANGED <<nodeFormVars, edgeFormVars, uiVars, timers, callVars>>
    /\ UNCHANGED <<isDeployModalOpen, showLogModal, autoAssignMacSn>>

\* the deploy request is answered and its stream read to the end, or it fails:
\* the logs change, and finally deployLoading[serverIp] is false
deployResponds ==
    /\ deployment.pc = "deploy"
    /\ deployment' = NoDeployment
    /\ deployLoading' = FALSE
    /\ UNCHANGED <<graphVars, docVars, settingVars, nodeFormVars, edgeFormVars, uiVars>>
    /\ UNCHANGED <<timers, callVars>>
    /\ UNCHANGED <<isDeployModalOpen, showLogModal, autoAssignMacSn>>

(***************************************************************************)
(* The component: every event the page can deliver.                        *)
(***************************************************************************)
\* the texts that can reach the editor or the file dialog
Texts == TypedDocs \cup {yamlOutput}

Next ==
    \/ \E type \in DropTypes : onDrop(type)
    \/ \E nodeType \in ClickTypes : onNodeClick(nodeType)
    \/ \E prefix \in TypedPrefixes : handleNodeNamePrefixChange(prefix)
    \/ \E count \in TypedCounts : handleNodeCountChange(count)
    \/ \E name \in TypedNames : handleNodeNameChange(name)
    \/ \E selectedKind \in PickedKinds : handleNodeKindChange(selectedKind)
    \/ \E value \in TypedIpv6 : setNodeIpv6MgmtIp(value)
    \/ handleModalCancel
    \/ handleModalSubmit
    \/ \E i \in 1..Len(nodes) : onNodeContextMenu(nodes[i])
    \/ \E i \in 1..Len(edges) : onEdgeContextMenu(edges[i])
    \/ handleContextMenuClose
    \/ handleRemoveNode
    \/ handleRemoveEdge
    \/ handleModifyNode
    \/ handleModifyEdge
    \/ \E i, j \in 1..Len(nodes) : onConnect(nodes[i].id, nodes[j].id)
    \/ \E value \in TypedInterfaces : setSourceInterface(value)
    \/ \E value \in TypedInterfaces : setTargetInterface(value)
    \/ cancelEdgeModal
    \/ closeErrorModal
    \/ handleEdgeModalSubmit
    \/ \E newYaml \in Texts : handleYamlChange(newYaml)
    \/ \E content \in Texts : handleImportedContent(content)
    \/ handleReset
    \/ \E isChecked \in BOOLEAN : handleMgmtCheckbox(isChecked)
    \/ \E newValue \in TypedNetworks : handleMgmtNetworkChange(newValue)
    \/ \E newValue \in TypedSubnets : handleIpv4SubnetChange(newValue)
    \/ reassignMgmtIPs
    \/ updateYamlTimeout
    \/ handleEsc
    \/ \E newTopologyName \in TypedTopologyNames : handleTopologyNameChange(newTopologyName)
    \/ handleDeploy
    \/ \E isChecked \in BOOLEAN : handleAutoAssignChange(isChecked)
    \/ cancelDeployModal
    \/ closeLogModal
    \/ handleServerDeploy
    \/ \E ok \in BOOLEAN : snResponds(ok)
    \/ deployResponds
    \/ \E field \in {"key", "value"}, value \in TypedFieldTexts :
          handleCustomFieldChange(1, field, value)

Spec == Init /\ [][Next]_vars

(***************************************************************************)
(* The component exercised one part at a time: each part takes the events  *)
(* of some of the handlers, from the same initial state.                    *)
(***************************************************************************)
\* the editor, the import dialog and the reset button
DocumentNext ==
    \/ \E newYaml \in Texts : handleYamlChange(newYaml)
    \/ \E content \in Texts : handleImportedContent(content)
    \/ handleReset

DocumentSpec == Init /\ [][DocumentNext]_vars

\* routers created from the sidebar, connected with the proposed interfaces,
\* renamed and removed from the context menu
GraphNext ==
    \/ onNodeClick("router")
    \/ \E count \in TypedCounts : handleNodeCountChange(count)
    \/ handleNodeNameChange(ceos \o <<"2">>)
    \/ handleModalCancel
    \/ handleModalSubmit
    \/ \E i \in 1..Len(nodes) : onNodeContextMenu(nodes[i])
    \/ handleContextMenuClose
    \/ handleRemoveNode
    \/ handleModifyNode
    \/ \E i, j \in 1..Len(nodes) : onConnect(nodes[i].id, nodes[j].id)
    \/ cancelEdgeModal
    \/ handleEdgeModalSubmit

GraphSpec == Init /\ [][GraphNext]_vars

\* routers created from the sidebar, connected to one another through the edge form
\* with typed interfaces
EdgeNext ==
    \/ onNodeClick("router")
    \/ handleModalSubmit
    \/ \E i, j \in 1..Len(nodes) : i # j /\ onConnect(nodes[i].id, nodes[j].id)
    \/ \E value \in TypedInterfaces : setSourceInterface(value)
    \/ \E value \in TypedInterfaces : setTargetInterface(value)
    \/ cancelEdgeModal
    \/ closeErrorModal
    \/ handleEdgeModalSubmit

EdgeSpec == Init /\ [][EdgeNext]_vars

\* nodes created with a management address, and the saved document imported again
RoundTripNext ==
    \/ \E type \in DropTypes : onDrop(type)
    \/ \E count \in TypedCounts : handleNodeCountChange(count)
    \/ \E value \in TypedIpv6 : setNodeIpv6MgmtIp(value)
    \/ handleModalCancel
    \/ handleModalSubmit
    \/ handleImportedContent(yamlOutput)
    \/ handleReset

RoundTripSpec == Init /\ [][RoundTripNext]_vars

\* two routers and the edge form, with one interface name typed
ConnectNext ==
    \/ onNodeClick("router")
    \/ handleModalSubmit
    \/ \E i, j \in 1..Len(nodes) : onConnect(nodes[i].id, nodes[j].id)
    \/ setSourceInterface(Eth(55))
    \/ cancelEdgeModal
    \/ handleEdgeModalSubmit

ConnectSpec == Init /\ [][ConnectNext]_vars

\* the settings panel with nodes on the canvas, and the pending timeouts
MgmtNext ==
    \/ onNodeClick("router")
    \/ handleModalSubmit
    \/ \E isChecked \in BOOLEAN : handleMgmtCheckbox(isChecked)
    \/ \E newValue \in TypedNetworks : handleMgmtNetworkChange(newValue)
    \/ \E newValue \in TypedSubnets : handleIpv4SubnetChange(newValue)
    \/ reassignMgmtIPs
    \/ updateYamlTimeout

MgmtSpec == Init /\ [][MgmtNext]_vars

\* nodes on the canvas and a subnet typed with a mask the allocation rejects
Slash33 == JoinDots(<<10, 0, 0, 0>>) \o <<"/", "3", "3">>

AllocateNext ==
    \/ onNodeClick("router")
    \/ handleModalSubmit
    \/ handleMgmtCheckbox(TRUE)
    \/ \E newValue \in TypedNetworks : handleMgmtNetworkChange(newValue)
    \/ \E newValue \in {Cidr(<<10, 0, 0, 0, 24>>), Slash33} : handleIpv4SubnetChange(newValue)
    \/ reassignMgmtIPs
    \/ updateYamlTimeout

AllocateSpec == Init /\ [][AllocateNext]_vars

\* the node form and the edge form, opened to create or to modify, and left by
\* Submit, by Cancel or by the Escape key
FormNext ==
    \/ onNodeClick("router")
    \/ handleModalSubmit
    \/ handleModalCancel
    \/ handleEsc
    \/ \E i \in 1..Len(nodes) : onNodeContextMenu(nodes[i])
    \/ \E i \in 1..Len(edges) : onEdgeContextMenu(edges[i])
    \/ handleModifyNode
    \/ handleModifyEdge
    \/ \E i, j \in 1..Len(nodes) : i # j /\ onConnect(nodes[i].id, nodes[j].id)
    \/ cancelEdgeModal
    \/ handleEdgeModalSubmit

FormSpec == Init /\ [][FormNext]_vars

\* documents typed into the editor, management switched on, and renders of the same
\* graph repeated by the Re-assign button
RenderNext ==
    \/ \E newYaml \in {DocLinked, DocSettings} : handleYamlChange(newYaml)
    \/ handleMgmtCheckbox(TRUE)
    \/ reassignMgmtIPs
    \/ updateYamlTimeout

RenderSpec == Init /\ [][RenderNext]_vars

\* the topology name typed, imported or generated, and the graph edited under it
NameNext ==
    \/ \E newTopologyName \in TypedTopologyNames : handleTopologyNameChange(newTopologyName)
    \/ onNodeClick("router")
    \/ handleModalSubmit
    \/ \E i, j \in 1..Len(nodes) : i # j /\ onConnect(nodes[i].id, nodes[j].id)
    \/ handleEdgeModalSubmit
    \/ \E i \in 1..Len(nodes) : onNodeContextMenu(nodes[i])
    \/ handleRemoveNode
    \/ \E content \in {DocLinked, DocNameOnly, DocSettings} : handleImportedContent(content)

NameSpec == Init /\ [][NameNext]_vars

\* routers created, connected, and renamed through the Modify entry of the context menu
RenameNext ==
    \/ onNodeClick("router")
    \/ handleModalSubmit
    \/ \E i, j \in 1..Len(nodes) : onConnect(nodes[i].id, nodes[j].id)
    \/ handleEdgeModalSubmit
    \/ \E i \in 1..Len(nodes) : onNodeContextMenu(nodes[i])
    \/ handleModifyNode
    \/ handleNodeNameChange(r9)

RenameSpec == Init /\ [][RenameNext]_vars

\* routers connected through the edge form, and edges removed from the context menu
RemoveEdgeNext ==
    \/ onNodeClick("router")
    \/ handleModalSubmit
    \/ \E i, j \in 1..Len(nodes) : onConnect(nodes[i].id, nodes[j].id)
    \/ setTargetInterface(Eth(2))
    \/ handleEdgeModalSubmit
    \/ \E i \in 1..Len(edges) : onEdgeContextMenu(edges[i])
    \/ handleRemoveEdge

RemoveEdgeSpec == Init /\ [][RemoveEdgeNext]_vars

\* a router created and the document deployed, with the dialogs closed and the
\* graph edited while the server has not answered
DeployNext ==
    \/ onNodeClick("router")
    \/ handleModalSubmit
    \/ handleDeploy
    \/ \E isChecked \in BOOLEAN : handleAutoAssignChange(isChecked)
    \/ cancelDeployModal
    \/ closeLogModal
    \/ handleServerDeploy
    \/ \E ok \in BOOLEAN : snResponds(ok)
    \/ deployResponds

DeploySpec == Init /\ [][DeployNext]_vars

\* routers created with environment variables typed into the create form, renamed
\* through the context menu, and a document typed into the editor
LabelNext ==
    \/ onNodeClick("router")
    \/ \E field \in {"key", "value"}, value \in TypedFieldTexts :
          handleCustomFieldChange(1, field, value)
    \/ handleModalSubmit
    \/ \E i \in 1..Len(nodes) : onNodeContextMenu(nodes[i])
    \/ handleModifyNode
    \/ handleNodeNameChange(r9)
    \/ handleYamlChange(DocLinked)

LabelSpec == Init /\ [][LabelNext]_vars

\* routers connected through the edge form, and an edge modified in place through the
\* Modify entry of its context menu
ModifyEdgeNext ==
    \/ onNodeClick("router")
    \/ handleModalSubmit
    \/ \E i, j \in 1..Len(nodes) : i # j /\ onConnect(nodes[i].id, nodes[j].id)
    \/ setSourceInterface(Eth(2))
    \/ setTargetInterface(Eth(2))
    \/ handleEdgeModalSubmit
    \/ \E i \in 1..Len(edges) : onEdgeContextMenu(edges[i])
    \/ handleModifyEdge

ModifyEdgeSpec == Init /\ [][ModifyEdgeNext]_vars

\* The management fields, the requests validateMgmtSettings guards, and an edit of the
\* YAML text that carries a mgmt section.
GuardNext ==
    \/ onDrop("router")
    \/ onNodeClick("router")
    \/ handleModalSubmit
    \/ \E i, j \in 1..Len(nodes) : i # j /\ onConnect(nodes[i].id, nodes[j].id)
    \/ cancelEdgeModal
    \/ handleMgmtCheckbox(TRUE)
    \/ \E newValue \in TypedNetworks : handleMgmtNetworkChange(newValue)
    \/ handleIpv4SubnetChange(Cidr(<<10, 0, 0, 0, 24>>))
    \/ handleYamlChange(DocSettings)
    \/ reassignMgmtIPs
    \/ updateYamlTimeout

GuardSpec == Init /\ [][GuardNext]_vars

\* two named nodes created from the sidebar and connected on the canvas
leaf1 == <<"l", "e", "a", "f", "1">>
spine1 == <<"s", "p", "i", "n", "e", "1">>

ScenarioNext ==
    \/ onNodeClick("router")
    \/ \E prefix \in {leaf1, spine1} : handleNodeNamePrefixChange(prefix)
    \/ handleModalCancel
    \/ handleModalSubmit
    \/ \E i, j \in 1..Len(nodes) : onConnect(nodes[i].id, nodes[j].id)
    \/ cancelEdgeModal
    \/ handleEdgeModalSubmit

ScenarioSpec == Init /\ [][ScenarioNext]_vars

(***************************************************************************)
(* The properties of the specification, stated on the model.               *)
(***************************************************************************)
\* C1: in every committed state no two nodes of the node list share an identifier.
NodeIdsUnique ==
    \A i, j \in 1..Len(nodes) : i # j => nodes[i].id # nodes[j].id

\* C2: in every committed state no two edges share a (source, sourceInterface) pair
\* and no two edges share a (target, targetInterface) pair.
EdgeEndpointsExclusive ==
    \A i, j \in 1..Len(edges) :
        i # j => /\ <<edges[i].source, edges[i].sourceInterface>>
                        # <<edges[j].source, edges[j].sourceInterface>>
                 /\ <<edges[i].target, edges[i].targetInterface>>
                        # <<edges[j].target, edges[j].targetInterface>>

\* C3: in every reachable state the source and the target of every edge are
\* identifiers of nodes in the node list; a parsed link to an absent node is not an edge.
NoDanglingEdges ==
    \A i \in 1..Len(edges) : HasNode(edges[i].source) /\ HasNode(edges[i].target)

\* the interface names the edges reference on nodeId
ReferencedInterfaces(nodeId) ==
    {edges[i].sourceInterface : i \in {k \in 1..Len(edges) : edges[k].source = nodeId}}
        \cup {edges[i].targetInterface : i \in {k \in 1..Len(edges) : edges[k].target = nodeId}}

\* C4: after every edit operation the registry entry of every node that exists is
\* exactly the set of interface names the edges reference on that node.
RegistryMatchesEdges ==
    \A i \in 1..Len(nodes) :
        Range(UsedInterfaces(nodeInterfaces, nodes[i].id)) = ReferencedInterfaces(nodes[i].id)

\* the number of edges of es with nodeId as source or target
EdgesReferencing(es, nodeId) ==
    Cardinality({i \in 1..Len(es) : es[i].source = nodeId \/ es[i].target = nodeId})

\* the node form, open on a node, is submitted with a name that no node has
RenameSubmitted ==
    /\ NodeFormOpen /\ modalType = "modify"
    /\ Trim(nodeName) # <<>> /\ nodeKind # ""
    /\ nodeName # newNode.label /\ nodeName # newNode.id
    /\ HasNode(newNode.id) /\ ~HasNode(nodeName)
    /\ handleModalSubmit

\* C5: after renaming node A to B no edge has A as source or target, and as many
\* edges reference B as referenced A before, an edge from A to A included.
RenameRewritesEdges ==
    [][RenameSubmitted => /\ EdgesReferencing(edges', newNode.id) = 0
                          /\ EdgesReferencing(edges', nodeName)
                                = EdgesReferencing(edges, newNode.id)]_vars

\* render(G, S): the document updateYaml writes for the graph and settings of the state
Rendered == updateYaml(nodes, edges, SettingsNow, yamlOutput)

\* a node and its parse agree on every field the document represents
SameNodeFields(node, parsed) ==
    /\ parsed.id = node.id
    /\ parsed.kind = node.kind
    /\ parsed.image = node.image
    /\ [i \in 1..Len(parsed.binds) |-> parsed.binds[i].text] = ValidBinds(node.binds)
    /\ parsed.mgmtIp = node.mgmtIp
    /\ parsed.ipv6MgmtIp = node.ipv6MgmtIp
    /\ parsed.startupConfig = node.startupConfig
    /\ EnvFrom(parsed.customFields, Len(parsed.customFields))
          = EnvFrom(node.customFields, Len(node.customFields))

SameEdgeFields(edge, parsed) ==
    /\ parsed.source = edge.source
    /\ parsed.target = edge.target
    /\ parsed.sourceInterface = edge.sourceInterface
    /\ parsed.targetInterface = edge.targetInterface

\* the settings a document carries are the settings of the state
SameSettings(doc) ==
    /\ Get(doc.name) = topologyName
    /\ IsSome(doc.mgmt) = showMgmt
    /\ IsSome(doc.mgmt) =>
          /\ FirstOf(Get(doc.mgmt).network, Get(doc.mgmt).network) = mgmtNetwork
          /\ FirstOf(Get(doc.mgmt).ipv4_subnet, Get(doc.mgmt).ipv4dash) = ipv4Subnet
    /\ IsSome(doc.defaults) => Get(doc.defaults) = defaultKind
    /\ IsSome(doc.kinds) =>
          [i \in 1..Len(Get(doc.kinds)) |-> Get(doc.kinds)[i].key]
              = [i \in 1..Len(SelectSeq(kinds, LAMBDA k : NonBlank(k.name))) |->
                    SelectSeq(kinds, LAMBDA k : NonBlank(k.name))[i].name]

\* C6: round trip: the parse of the document rendered from a graph and settings is
\* equal to them on every field the document represents, positions excepted.
RoundTripStable ==
    ParsesToTopology(Rendered) =>
        LET parsedNodes == ParsedNodes(Get(Rendered.nodes))
            parsedEdges == IF IsSome(Rendered.links) THEN ParsedEdges(Get(Rendered.links))
                           ELSE <<>>
        IN /\ Len(parsedNodes) = Len(nodes)
           /\ \A i \in 1..Len(nodes) : SameNodeFields(nodes[i], parsedNodes[i])
           /\ Len(parsedEdges) = Len(edges)
           /\ \A i \in 1..Len(edges) : SameEdgeFields(edges[i], parsedEdges[i])
           /\ SameSettings(Rendered)

\* C7: a text that does not parse to a topology leaves the nodes, the edges, the
\* registry and every setting as they were, is kept verbatim in the editor, and sets
\* the invalid flag with a message.
FailedParseKeepsStore ==
    [][\A newYaml \in Texts :
          (handleYamlChange(newYaml) /\ ~ParsesToTopology(newYaml))
              => /\ UNCHANGED <<nodes, edges, nodeInterfaces>>
                 /\ UNCHANGED settingVars
                 /\ editableYaml' = newYaml
                 /\ ~isYamlValid'
                 /\ yamlParseError' # ""]_vars

\* handleEdgeModalSubmit is called with a new edge that an edge of the list equals
DuplicateSubmitted ==
    /\ ~isModifyingEdge
    /\ validateInterface(sourceInterface) /\ validateInterface(targetInterface)
    /\ \E i \in 1..Len(edges) :
          IsDuplicateEdge(edges[i], Edge(<<>>, newEdgeData.source, newEdgeData.target,
                                         sourceInterface, targetInterface))

\* the edge form fails a validation
EdgeFormRejected ==
    \/ Trim(sourceInterface) = <<>> \/ Trim(targetInterface) = <<>>
    \/ ~validateInterface(sourceInterface) \/ ~validateInterface(targetInterface)
    \/ DuplicateSubmitted

\* the node form fails a validation
NodeFormRejected ==
    \/ nodeKind = ""
    \/ modalType = "modify" /\ Trim(nodeName) = <<>>
    \/ modalType = "create" /\ Trim(nodeNamePrefix) = <<>>

\* C8: a submit that fails a validation changes neither nodes, edges, registry nor
\* document, and leaves the form open with a warning.
FailedSubmitKeepsStore ==
    [][/\ (handleEdgeModalSubmit /\ EdgeFormRejected)
            => /\ UNCHANGED <<nodes, edges, nodeInterfaces, yamlOutput, editableYaml>>
               /\ isEdgeModalOpen'
               /\ (edgeModalWarning' \/ showErrorModal')
       /\ (handleModalSubmit /\ NodeFormRejected)
            => /\ UNCHANGED <<nodes, edges, nodeInterfaces, yamlOutput, editableYaml>>
               /\ isModalOpen'
               /\ nodeModalWarning']_vars

\* C9: the submit of a new edge equal to an existing one is rejected with an error
\* the user sees, and the number of edges is unchanged.
DuplicateEdgeRejected ==
    [][(handleEdgeModalSubmit /\ DuplicateSubmitted)
          => /\ Len(edges') = Len(edges)
             /\ (showErrorModal' \/ edgeModalWarning')]_vars

\* eth<N> with 1 <= N <= 54
InterfaceInRange(name) == \E n \in 1..54 : name = Eth(n)

\* C10: the interfaces of every committed edge are eth<N> with 1 <= N <= 54.
InterfacesInRange ==
    \A i \in 1..Len(edges) :
        InterfaceInRange(edges[i].sourceInterface) /\ InterfaceInRange(edges[i].targetInterface)

\* C11: validateInterface accepts a string exactly when it is eth followed by the
\* decimal numeral of an integer from 1 to 54.
ValidateInterfaceExact ==
    (call.fn = "validateInterface" /\ returned.done)
        => (returned.valid <=> \E n \in 1..54 : call.interfaceName = Eth(n))

\* the text a.b.c.h
Address(q, h) == JoinDots(<<q[1], q[2], q[3], h>>)

\* C14: for a well-formed a.b.c.d/mask, generateIpsFromSubnet returns a.b.c.2, a.b.c.3, ...
\* in increasing order, min(count, 253) of them; (192.168.1.0/24, 5) gives
\* 192.168.1.2 .. 192.168.1.6.
AddressSequenceFromSecondHost ==
    /\ \A q \in WellFormedCidrs :
          (call.fn = "generateIpsFromSubnet" /\ call.subnet = Cidr(q) /\ returned.done)
              => /\ Len(returned.ips) = (IF call.count < 253 THEN call.count ELSE 253)
                 /\ \A i \in 1..Len(returned.ips) : returned.ips[i] = Address(q, i + 1)
    /\ (call = SubnetCall(Cidr(<<192, 168, 1, 0, 24>>), 5) /\ returned.done)
          => returned.ips = << <<"1", "9", "2", ".", "1", "6", "8", ".", "1", ".", "2">>,
                               <<"1", "9", "2", ".", "1", "6", "8", ".", "1", ".", "3">>,
                               <<"1", "9", "2", ".", "1", "6", "8", ".", "1", ".", "4">>,
                               <<"1", "9", "2", ".", "1", "6", "8", ".", "1", ".", "5">>,
                               <<"1", "9", "2", ".", "1", "6", "8", ".", "1", ".", "6">> >>

\* generateIpsFromSubnet("192.168.1.0/24", 5) has returned its five addresses
FiveAddressesReturned ==
    /\ call = SubnetCall(Cidr(<<192, 168, 1, 0, 24>>), 5)
    /\ returned.done /\ Len(returned.ips) = 5

\* the last octets of the subnet of q, its network and broadcast addresses excluded
HostOctets(q) ==
    LET size == 2 ^ (32 - q[5])
        network == q[4] - (q[4] % size)
    IN (network + 1)..(network + size - 2)

\* C15: for a mask longer than /24 every address generateIpsFromSubnet returns lies
\* inside the subnet, before its broadcast address.
AddressesInsideSubnet ==
    \A q \in WellFormedCidrs :
        (/\ q[5] > 24 /\ q[5] < 31
         /\ call.fn = "generateIpsFromSubnet" /\ call.subnet = Cidr(q) /\ returned.done)
            => \A i \in 1..Len(returned.ips) :
                  \E h \in HostOctets(q) : returned.ips[i] = Address(q, h)

\* C16: a malformed subnet text gives the empty sequence.
MalformedGivesEmpty ==
    (call.fn = "generateIpsFromSubnet" /\ call.subnet \in MalformedCidrs /\ returned.done)
        => returned.ips = <<>>

\* the smallest n >= 1 with eth<n> not in the list used
LowestFree(used) ==
    CHOOSE n \in 1..(Len(used) + 1) :
        /\ Eth(n) \notin Range(used)
        /\ \A m \in 1..(n - 1) : Eth(m) \in Range(used)

\* the name the edge form proposed for nodeId is the lowest free one of the registry
ProposedLowestFree(proposed, nodeId) ==
    LET used == UsedInterfaces(nodeInterfaces, nodeId)
    IN proposed = Eth(LowestFree(used)) /\ proposed \notin Range(used)

\* C12: the interface name onConnect proposes for a node is eth<N> for the smallest
\* N >= 1 not in the node's registry entry; it is not reserved on that node, and it
\* depends on the registry only, so a repeated call without a commit returns it again.
NextInterfaceIsLowestFree ==
    [][\A i, j \in 1..Len(nodes) :
          (onConnect(nodes[i].id, nodes[j].id) /\ isEdgeModalOpen')
              => /\ ProposedLowestFree(sourceInterface', nodes[i].id)
                 /\ ProposedLowestFree(targetInterface', nodes[j].id)]_vars

\* the edge form proposes eth1 for a node whose only reserved interface is eth55
LowestFreeProposed ==
    /\ isEdgeModalOpen /\ ~isModifyingEdge
    /\ newEdgeData.source \in DOMAIN nodeInterfaces
    /\ nodeInterfaces[newEdgeData.source] = <<Eth(55)>>
    /\ sourceInterface = Eth(1)

\* the largest number among the identifiers of the form prefix<digits>, 0 if none
LargestNumbered(ns, prefix) ==
    LET numbers == {MatchNumber(ns[i].id, prefix) : i \in 1..Len(ns)} \cup {0}
    IN CHOOSE m \in numbers : \A n \in numbers : n <= m

\* C13: a submit of the create form with count N and prefix p appends exactly the nodes
\* p(m+1) .. p(m+N), m being the largest number among the existing identifiers p<digits>,
\* none of them an existing identifier; when validation fails no node is added.
BulkCreateConsecutive ==
    [][(handleModalSubmit /\ modalType = "create")
          => IF Trim(nodeNamePrefix) = <<>> \/ nodeKind = ""
             THEN nodes' = nodes
             ELSE LET m == LargestNumbered(nodes, nodeNamePrefix)
                  IN /\ Len(nodes') = Len(nodes) + nodeCount
                     /\ SubSeq(nodes', 1, Len(nodes)) = nodes
                     /\ \A k \in 1..nodeCount :
                           /\ nodes'[Len(nodes) + k].id = nodeNamePrefix \o Dec(m + k)
                           /\ \A i \in 1..Len(nodes) :
                                 nodes[i].id # nodes'[Len(nodes) + k].id]_vars

\* the subnets a.b.c.0/24 the settings can hold, as <<a, b, c>>
Slash24Prefixes == {<<172, 20, 20>>, <<10, 0, 0>>}

Slash24(p) == Cidr(<<p[1], p[2], p[3], 0, 24>>)

\* a step of the settings panel that leaves management enabled with a network name
\* and the subnet p.0/24
EnablesWith(p) ==
    /\ \/ handleMgmtCheckbox(TRUE)
       \/ \E newValue \in TypedNetworks : handleMgmtNetworkChange(newValue)
       \/ \E newValue \in TypedSubnets : handleIpv4SubnetChange(newValue)
    /\ showMgmt' /\ Trim(mgmtNetwork') # <<>> /\ ipv4Subnet' = Slash24(p)

\* C17: once management addressing is enabled with the subnet a.b.c.0/24, the i-th node
\* in insertion order holds a.b.c.(i+1), whatever it held before; once management is
\* disabled, every node holds an empty management address.
MgmtAssignsInInsertionOrder ==
    /\ [][\A p \in Slash24Prefixes :
             EnablesWith(p) => \A i \in 1..Len(nodes') : nodes'[i].mgmtIp = Address(p, i + 1)]_vars
    /\ [][handleMgmtCheckbox(FALSE) => \A i \in 1..Len(nodes') : nodes'[i].mgmtIp = <<>>]_vars

\* C20: a render never runs after the handler that started it has returned with anything
\* but the committed state: when a deferred updateYaml runs, the nodes, the edges and the
\* settings it renders are the current ones.
NoStaleRender ==
    [][updateYamlTimeout
          => /\ Head(timers).nodes = nodes
             /\ Head(timers).edges = edges
             /\ Head(timers).cl = SettingsNow]_vars

\* C19: a full reset leaves, in one step, every piece of state at its initial value:
\* no node, no edge, an empty interface registry (nothing reserved before the reset is
\* reserved after it), an empty document, an empty topology name, the initial settings
\* and a valid document flag.
ResetRestoresInitialState ==
    [][handleReset
          => /\ nodes' = <<>> /\ edges' = <<>>
             /\ nodeInterfaces' = EmptyReg
             /\ yamlOutput' = EmptyDoc /\ editableYaml' = EmptyDoc
             /\ topologyName' = <<>>
             /\ ~showMgmt' /\ mgmtNetwork' = <<>> /\ ipv4Subnet' = <<>>
             /\ ~showIpv6' /\ ipv6Subnet' = <<>>
             /\ ~showKind' /\ kinds' = <<EmptyKind>>
             /\ ~showDefault' /\ defaultKind' = ""
             /\ isYamlValid' /\ yamlParseError' = ""]_vars

\* the edge form is open on a link between leaf1 and spine1, the only nodes (both of
\* kind ceos, created in this order), and no link exists yet
LeafSpineFormOpen ==
    /\ Len(nodes) = 2 /\ nodes[1].id = leaf1 /\ nodes[2].id = spine1
    /\ nodes[1].kind = "ceos" /\ nodes[2].kind = "ceos"
    /\ edges = <<>>
    /\ isEdgeModalOpen
    /\ {newEdgeData.source, newEdgeData.target} = {leaf1, spine1}

\* C18: from an empty topology, with leaf1 and spine1 created and connected with the
\* interfaces the form proposes, the document's links section holds exactly one entry,
\* with the endpoints leaf1:eth1 and spine1:eth1, and the registry holds exactly eth1
\* for each of the two nodes.
LeafSpineLinkedOnEth1 ==
    [][(handleEdgeModalSubmit /\ LeafSpineFormOpen)
          => /\ yamlOutput'.tag = "map"
             /\ yamlOutput'.links = Some(<< <<Colon(newEdgeData.source, Eth(1)),
                                             Colon(newEdgeData.target, Eth(1))>> >>)
             /\ DOMAIN nodeInterfaces' = {leaf1, spine1}
             /\ nodeInterfaces'[leaf1] = <<Eth(1)>>
             /\ nodeInterfaces'[spine1] = <<Eth(1)>>]_vars

\* leaf1 and spine1 are linked and the document shows the link
LeafSpineLinked ==
    /\ Len(nodes) = 2 /\ nodes[1].id = leaf1 /\ nodes[2].id = spine1
    /\ Len(edges) = 1 /\ edges[1].source = leaf1 /\ edges[1].target = spine1
    /\ yamlOutput.tag = "map"
    /\ yamlOutput.links = Some(<< <<Colon(leaf1, Eth(1)), Colon(spine1, Eth(1))>> >>)
    /\ nodeInterfaces[leaf1] = <<Eth(1)>>
    /\ nodeInterfaces[spine1] = <<Eth(1)>>

\* a binding list that holds one blank binding
BlankBinds(binds) ==
    Len(binds) = 1 /\ binds[1].source \in {<<>>, Undefined}
                   /\ binds[1].target \in {<<>>, Undefined} /\ binds[1].text = <<>>

\* C21: cancelling the open node form or edge form leaves the nodes, the edges, the
\* interface registry, the document and the settings unchanged, and every field and
\* mode flag of the cancelled form holds its initial value afterwards.
CancelRevertsForm ==
    /\ [][((handleModalCancel \/ handleEsc) /\ isModalOpen)
             => /\ UNCHANGED <<graphVars, docVars, settingVars>>
                /\ ~isModalOpen' /\ modalType' = "create" /\ ~isModifying'
                /\ nodeName' = <<>> /\ nodeNamePrefix' = <<>>
                /\ nodeKind' = "ceos" /\ nodeImage' = "ceos:4.34.0F"
                /\ nodeCount' = 1 /\ BlankBinds(nodeBinds')
                /\ nodeMgmtIp' = <<>> /\ nodeIpv6MgmtIp' = <<>>
                /\ nodeStartupConfig' = <<>>
                /\ nodeCustomFields' = EmptyCustomFields]_vars
    /\ [][cancelEdgeModal
             => /\ UNCHANGED <<graphVars, docVars, settingVars>>
                /\ ~isEdgeModalOpen' /\ ~isModifyingEdge'
                /\ newEdgeData' = NoEdge
                /\ sourceInterface' = <<>> /\ targetInterface' = <<>>]_vars

\* updateYaml of the current graph and settings, the previous document being doc
RenderedFrom(doc) == updateYaml(nodes, edges, SettingsNow, doc)

\* C22: with a non-empty topology name, a second render of the same graph and settings,
\* given the first render's output as the previous document, gives the same document
\* as the first render, whatever document the first render started from.
RenderIsIdempotent ==
    topologyName # <<>> => RenderedFrom(RenderedFrom(yamlOutput)) = RenderedFrom(yamlOutput)

\* a node holds an address the document does not show yet, and the next render of the
\* graph changes the document
RenderPending ==
    /\ topologyName # <<>>
    /\ \E i \in 1..Len(nodes) : nodes[i].mgmtIp # <<>>
    /\ yamlOutput.tag = "map"
    /\ RenderedFrom(yamlOutput) # yamlOutput

\* the name the document is to carry for the topology name t
ExpectedName(t) == IF Includes(t, username) THEN t ELSE username \o <<"-">> \o t

\* C23: every document produced by a render after a graph edit, by a topology-name edit
\* or by an import carries as its name the topology name when that name contains the
\* username, and <username>-<topology name> otherwise.
DocumentNameQualifiedOnce ==
    [][((\/ handleModalSubmit \/ handleEdgeModalSubmit \/ handleRemoveNode
         \/ \E newTopologyName \in TypedTopologyNames : handleTopologyNameChange(newTopologyName)
         \/ \E content \in TypedDocs : handleImportedContent(content))
        /\ yamlOutput' # yamlOutput /\ yamlOutput'.tag = "map" /\ IsSome(yamlOutput'.name))
          => Get(yamlOutput'.name) = ExpectedName(topologyName')]_vars

\* C24: no node creation, rename or removal and no edge creation or modification commits
\* while the topology name is empty: the state such a step leaves has a non-empty name.
NoCommitUnderEmptyName ==
    [][((handleModalSubmit \/ handleEdgeModalSubmit \/ handleRemoveNode)
        /\ <<nodes', edges'>> # <<nodes, edges>>)
          => Trim(topologyName') # <<>>]_vars

\* the node form, open on the node newNode.id, is submitted with another name
RenameStep ==
    /\ NodeFormOpen /\ modalType = "modify"
    /\ Trim(nodeName) # <<>> /\ nodeKind # ""
    /\ nodeName # newNode.label /\ nodeName # newNode.id
    /\ HasNode(newNode.id)
    /\ handleModalSubmit

\* C25: a rename of node A to B leaves the registry without the key A, and the entry A
\* had before the rename is the entry under B after it.
RenameMovesRegistryEntry ==
    [][RenameStep
          => /\ newNode.id \notin DOMAIN nodeInterfaces'
             /\ newNode.id \in DOMAIN nodeInterfaces
                   => /\ nodeName \in DOMAIN nodeInterfaces'
                      /\ nodeInterfaces'[nodeName] = nodeInterfaces[newNode.id]]_vars

\* a node renamed to r9 holds under its new name the interface it had reserved
RenamedWithReservation ==
    /\ HasNode(r9)
    /\ r9 \in DOMAIN nodeInterfaces
    /\ Len(nodeInterfaces[r9]) > 0
    /\ \A k \in DOMAIN nodeInterfaces : HasNode(k)

\* the keys of the nodes section of a document
NodeKeys(doc) ==
    IF doc.tag = "map" /\ IsSome(doc.nodes)
    THEN {Get(doc.nodes)[i].key : i \in 1..Len(Get(doc.nodes))} ELSE {}

\* the node names of the link endpoints of a document
LinkedNodes(doc) ==
    IF doc.tag = "map" /\ IsSome(doc.links)
    THEN {EndpointNode(Get(doc.links)[i][k]) : i \in 1..Len(Get(doc.links)), k \in 1..2}
    ELSE {}

\* C26: the document a rename of A to B renders is built from the rewritten edges: B is
\* a node key of it, A is not, and none of its link endpoints names A.
RenameRendersRewrittenEdges ==
    [][RenameStep
          => /\ nodeName \in NodeKeys(yamlOutput')
             /\ newNode.id \notin NodeKeys(yamlOutput')
             /\ newNode.id \notin LinkedNodes(yamlOutput')]_vars

\* the editor or the file dialog delivers a text
ParseStep ==
    \/ \E newYaml \in TypedDocs \cup {yamlOutput} : handleYamlChange(newYaml)
    \/ \E content \in TypedDocs \cup {yamlOutput} : handleImportedContent(content)

\* the interface names the edges es give the node nodeId
InterfacesOf(es, nodeId) ==
    {es[i].sourceInterface : i \in {j \in 1..Len(es) : es[j].source = nodeId}}
        \cup {es[i].targetInterface : i \in {j \in 1..Len(es) : es[j].target = nodeId}}

\* C27: after a successful parse, with or without a links section, the registry holds
\* for every node exactly the interface names of the parsed links, and nothing else:
\* no reservation made before the parse survives it.
ParseRebuildsRegistry ==
    [][(ParseStep /\ isYamlValid')
          => \A k \in (DOMAIN nodeInterfaces') \cup {nodes'[i].id : i \in 1..Len(nodes')} :
                Range(UsedInterfaces(nodeInterfaces', k))
                   = IF \E i \in 1..Len(nodes') : nodes'[i].id = k
                     THEN InterfacesOf(edges', k) ELSE {}]_vars

\* the position the graph ns gives the identifier id
PositionIn(ns, id) == ns[CHOOSE j \in 1..Len(ns) : ns[j].id = id].position

\* C28: after a successful parse, a node whose identifier was in the previous graph has
\* the position it had there; only a node with a new identifier has the grid position
\* of its index.
ParseKeepsKnownPositions ==
    [][(ParseStep /\ isYamlValid')
          => \A i \in 1..Len(nodes') :
                nodes'[i].position
                   = IF \E j \in 1..Len(nodes) : nodes[j].id = nodes'[i].id
                     THEN PositionIn(nodes, nodes'[i].id)
                     ELSE <<100 + ((i - 1) % 3) * 200, 100 + ((i - 1) \div 3) * 150>>]_vars

\* C29: while management addressing is enabled, a change of the IPv4 subnet to a
\* well-formed CIDR gives every current node, those that had an address included, the
\* address of its index in the sequence generateIpsFromSubnet returns for the new subnet.
SubnetChangeReassignsAll ==
    [][\A newValue \in TypedSubnets :
          (handleIpv4SubnetChange(newValue) /\ showMgmt)
             => LET ips == generateIpsFromSubnet(newValue, Len(nodes))
                IN /\ Len(nodes') = Len(nodes)
                   /\ \A i \in 1..Len(nodes) : nodes'[i].mgmtIp = ips[i]]_vars

\* the list without the first occurrence of name
WithoutOne(list, name) ==
    IF \E i \in 1..Len(list) : list[i] = name
    THEN LET first == CHOOSE i \in 1..Len(list) : list[i] = name /\ \A j \in 1..(i - 1) : list[j] # name
         IN SubSeq(list, 1, first - 1) \o SubSeq(list, first + 1, Len(list))
    ELSE list

\* the registry with the two reservations of the edge retracted, one after the other
WithoutReservations(reg, edge) ==
    LET sourceFreed == [reg EXCEPT ![edge.source] = WithoutOne(@, edge.sourceInterface)]
    IN [sourceFreed EXCEPT ![edge.target] = WithoutOne(@, edge.targetInterface)]

\* C30: removing an edge removes that one edge from the edge collection and retracts
\* from the registry the reservation of its source interface on its source node and of
\* its target interface on its target node; every other edge and every other
\* reservation is unchanged.
RemoveEdgeRetractsItsTwo ==
    [][handleRemoveEdge
          => /\ \E i \in 1..Len(edges) :
                   /\ edges[i] = contextMenu.edge
                   /\ edges' = SubSeq(edges, 1, i - 1) \o SubSeq(edges, i + 1, Len(edges))
             /\ nodeInterfaces' = WithoutReservations(nodeInterfaces, contextMenu.edge)]_vars

\* the list without its i-th element
WithoutIndex(list, i) == SubSeq(list, 1, i - 1) \o SubSeq(list, i + 1, Len(list))

\* the edges that do not touch nodeId, in their order
EdgesAway(nodeId) ==
    SelectSeq(edges, LAMBDA e : e.source # nodeId /\ e.target # nodeId)

\* C31: removing a node removes that node and every edge whose source or target is that
\* node in one step; every other node and edge is unchanged, and the document the removal
\* renders has neither the node's key nor a link endpoint naming it.
RemoveNodeRemovesItsEdges ==
    [][handleRemoveNode
          => /\ \E i \in 1..Len(nodes) :
                   /\ nodes[i] = contextMenu.node
                   /\ nodes' = WithoutIndex(nodes, i)
             /\ edges' = EdgesAway(contextMenu.node.id)
             /\ contextMenu.node.id \notin NodeKeys(yamlOutput')
             /\ contextMenu.node.id \notin LinkedNodes(yamlOutput')]_vars

\* the node entries of a document
EntriesOf(doc) == IF doc.tag = "map" /\ IsSome(doc.nodes) THEN Get(doc.nodes) ELSE <<>>

\* in the document a render of the current graph produces, an entry carries an address
\* or a startup config only if the node of that key holds one
RenderShowsHeldFields ==
    LET entries == EntriesOf(RenderedFrom(yamlOutput))
    IN \A i \in 1..Len(nodes) :
          LET e == Lookup(entries, nodes[i].id)
          IN /\ IsSome(e.mgmt4) => nodes[i].mgmtIp # <<>>
             /\ IsSome(e.startup) => Trim(nodes[i].startupConfig) # <<>>

\* C32: in the document render produces, a node's entry has a management-address key only
\* if the node's management address is non-empty and a startup-config key only if the
\* node's startup config is non-blank; after management is switched off no node entry
\* of the document carries a management address and the document has no management
\* section.
RenderOmitsEmptyFields ==
    /\ []RenderShowsHeldFields
    /\ [][handleMgmtCheckbox(FALSE)
             => /\ \A i \in 1..Len(EntriesOf(yamlOutput')) :
                      ~IsSome(EntriesOf(yamlOutput')[i].mgmt4)
                /\ yamlOutput'.mgmt = None]_vars

\* the server answers a request of handleServerDeploy
DeployContinues == (\E ok \in BOOLEAN : snResponds(ok)) \/ deployResponds

\* C33: the asynchronous continuation of a deployment, successful or failed and whatever
\* was edited meanwhile, writes nothing of the core state: nodes, edges, registry,
\* settings and both copies of the document are as they were.
DeployLeavesCoreState ==
    [][DeployContinues => UNCHANGED <<graphVars, settingVars, yamlOutput, editableYaml>>]_vars

\* generateIpsFromSubnet returns fewer addresses than there are nodes
AllocationShort(subnet) == Len(generateIpsFromSubnet(subnet, Len(nodes))) < Len(nodes)

\* a handler calls autoAssignMgmtIPs(subnet): the subnet field with both fields
\* non-blank, or the Re-assign button
ReassignStep(subnet) ==
    \/ /\ handleIpv4SubnetChange(subnet)
       /\ showMgmt /\ Trim(subnet) # <<>> /\ Trim(mgmtNetwork) # <<>>
    \/ /\ reassignMgmtIPs
       /\ subnet = ipv4Subnet

\* C34: when the allocation returns fewer addresses than there are nodes, the
\* re-assignment shows a warning to the user; it does not end silently with nodes left
\* without a newly allocated address.
ShortAllocationWarns ==
    [][\A subnet \in {Cidr(<<10, 0, 0, 0, 24>>), Slash33} :
          (ReassignStep(subnet) /\ AllocationShort(subnet))
             => (mgmtWarning' \/ showErrorModal')]_vars

\* the numbers n of the node identifiers that match ^p(\d+)$
NumbersAfter(p) ==
    {ParseDigits(SubSeq(nodes[i].id, Len(p) + 1, Len(nodes[i].id))) :
        i \in {j \in 1..Len(nodes) : /\ Len(nodes[j].id) > Len(p)
                                     /\ SubSeq(nodes[j].id, 1, Len(p)) = p
                                     /\ \A k \in (Len(p) + 1)..Len(nodes[j].id) :
                                           IsDigit(nodes[j].id[k])}}

\* one more than the largest of them, or 1 if there is none
NextNodeNumber(p) ==
    IF NumbersAfter(p) = {} THEN 1
    ELSE (CHOOSE n \in NumbersAfter(p) : \A m \in NumbersAfter(p) : m <= n) + 1

\* the create form is submitted for one node with a blank name, a prefix and a kind
SingleCreateStep ==
    /\ handleModalSubmit
    /\ modalType = "create" /\ nodeCount = 1
    /\ Trim(nodeName) = <<>> /\ nodeNamePrefix # <<>> /\ nodeKind # ""

\* C35: creating a single node with a blank name, a non-empty prefix p and a non-empty
\* kind commits exactly one new node, whose identifier is p followed by one more than
\* the largest n of the existing identifiers matching ^p(\d+)$ (1 if none matches), and
\* registers an empty interface set for that identifier.
SingleCreateAppendsNumbered ==
    [][SingleCreateStep
          => LET finalNodeName == nodeNamePrefix \o Dec(NextNodeNumber(nodeNamePrefix))
             IN /\ Len(nodes') = Len(nodes) + 1
                /\ SubSeq(nodes', 1, Len(nodes)) = nodes
                /\ nodes'[Len(nodes')].id = finalNodeName
                /\ finalNodeName \in DOMAIN nodeInterfaces'
                /\ nodeInterfaces'[finalNodeName] = <<>>]_vars

\* C36: in every committed state the label of every node equals its id, after a create,
\* a bulk create, a modification or rename, and a parse.
LabelsEqualIds ==
    \A i \in 1..Len(nodes) : nodes[i].label = nodes[i].id

\* C37: in every reachable state the ids of the edges are pairwise distinct, also after an
\* edge was modified in place (keeping the id derived from its original tuple) and a new
\* edge with that original tuple was created; an id then selects exactly one edge.
EdgeIdsUnique ==
    \A i, j \in 1..Len(edges) : i # j => edges[i].id # edges[j].id


\* the Submit of a create form for a single node, opened after a modify form that was
\* opened and closed without a submit: isModifying is set by handleModifyNode alone
CreateAfterCancelledModify ==
    /\ handleModalSubmit
    /\ modalType = "create" /\ nodeCount = 1 /\ isModifying
    /\ Trim(nodeNamePrefix) # <<>> /\ nodeKind # ""

\* C38: after a modify-node form was opened and cancelled, the next Submit of a create
\* form for a single node with a non-empty prefix and kind appends exactly one node to
\* the node list and one entry to the document.
CreateAfterCancelAppends ==
    [][CreateAfterCancelledModify
          => /\ Len(nodes') = Len(nodes) + 1
             /\ SubSeq(nodes', 1, Len(nodes)) = nodes
             /\ Len(EntriesOf(yamlOutput')) = Len(EntriesOf(yamlOutput)) + 1]_vars


\* the smallest n >= 1 with eth<n> not among the names
LowestUnused(names) ==
    CHOOSE n \in 1..(Cardinality(names) + 1) :
        /\ Eth(n) \notin names
        /\ \A m \in 1..(n - 1) : Eth(m) \in names

\* a node is removed in a state whose registry holds exactly the interfaces of the edges
RemoveNodeStep == handleRemoveNode /\ RegistryMatchesEdges

\* C39: after a node is removed, the next interface number of every remaining node is
\* the lowest N with eth<N> not used on that node by a remaining edge: an interface held
\* only by an edge to the removed node is available again.
RemoveNodeFreesInterfaces ==
    [][RemoveNodeStep
          => \A i \in 1..Len(nodes') :
                getNextInterfaceNumber(nodeInterfaces', nodes'[i].id)
                    = LowestUnused(InterfacesOf(edges', nodes'[i].id))]_vars


\* a drop, a sidebar click or a connection while validateMgmtSettings returns false
GuardedRequest ==
    /\ MgmtInvalid
    /\ \/ \E type \in {"router", "host"} : onDrop(type)
       \/ \E nodeType \in {"router", "bridge"} : onNodeClick(nodeType)
       \/ \E i, j \in 1..Len(nodes) : onConnect(nodes[i].id, nodes[j].id)

\* the request opens no form, adds no node or edge and raises the warning
RequestRefused ==
    [][GuardedRequest
          => /\ ~isModalOpen' /\ ~isEdgeModalOpen'
             /\ nodes' = nodes /\ edges' = edges
             /\ mgmtWarning']_vars

\* the warning is shown only while a field is blank
WarningOnlyWhileBlank == (showMgmt /\ mgmtWarning) => MgmtInvalid

\* C40: while management is enabled and the network name or the IPv4 subnet is blank, a
\* drop, a sidebar click and a connection open no form and add no node or edge; only the
\* management warning is raised, and it is cleared once both fields are non-blank.
MgmtGuardRefusesAndClears == RequestRefused /\ []WarningOnlyWhileBlank

====
